---- MODULE Spec2Model ----
(***************************************************************************)
(* A model of the MPC participant node of Aukciszek/backend.               *)
(*                                                                         *)
(* The repository holds two generations of the node.  The current one is   *)
(* the router generation (src/api/config.py, src/api/routers/*.py,         *)
(* src/api/utils/utils.py), driven by src/tests/__init__.py: its state is  *)
(* the dictionary of config.py with the nested "shares" dictionary and it  *)
(* is modelled by the variables st, net, out, resp and orch.  The older,   *)
(* label generation (src/api/__init__.py, src/api/utils.py and the         *)
(* handler of src/api/routers/multiplication.py) keeps a "status" label    *)
(* and top-level shared_q / shared_r lists; it is modelled by the variable *)
(* leg, and its definitions carry the prefix L_.                           *)
(***************************************************************************)
EXTENDS Integers, Sequences, FiniteSets, TLC

VARIABLES st, net, out, resp, orch, leg

vars == <<st, net, out, resp, orch, leg>>

(***************************************************************************)
(* Python values.  A stored value is None, an int, a tuple (id, value) or  *)
(* a list; they are tagged so that values of different Python types can be *)
(* compared.                                                               *)
(***************************************************************************)
None == <<"N">>

I(v) == <<"I", v>>

Pair(a, b) == <<"P", a, b>>

L(s) == <<"L", s>>

IsNone(x) == x[1] = "N"

IsInt(x) == x[1] = "I"

IsList(x) == x[1] = "L"

IsPair(x) == x[1] = "P"

\* dict.get(key, None)
Get(d, k) == IF k \in DOMAIN d THEN d[k] ELSE None

\* d[key] = value
Put(d, k, v) == [x \in DOMAIN d \cup {k} |-> IF x = k THEN v ELSE d[x]]

\* d.update(e)
Update(d, e) == [x \in DOMAIN d \cup DOMAIN e |-> IF x \in DOMAIN e THEN e[x] ELSE d[x]]

\* [v] * n as a sequence
Times(v, n) == IF n > 0 THEN [j \in 1..n |-> v] ELSE <<>>

\* [None] * n
NoneList(n) == L([i \in 1..n |-> None])

RECURSIVE SumSeq(_)
SumSeq(s) == IF s = <<>> THEN 0 ELSE Head(s) + SumSeq(Tail(s))

(***************************************************************************)
(* Field kernel: src/api/utils/utils.py.                                   *)
(***************************************************************************)
RECURSIVE binary_internal(_)
binary_internal(n) == IF n > 0 THEN <<n % 2>> \o binary_internal(n \div 2) ELSE <<>>

binary(n) == IF n = 0 THEN <<0>> ELSE binary_internal(n)

RECURSIVE bin_exp_loop(_, _, _, _)
bin_exp_loop(a, b, k, n) ==
    IF k = 0 THEN a
    ELSE bin_exp_loop(IF k % 2 = 1 THEN (a * b) % n ELSE a, (b * b) % n, k \div 2, n)

binary_exponentiation(b, k, n) == bin_exp_loop(1, b, IF k < 0 THEN n - 2 ELSE k, n)

RECURSIVE mmi_loop(_, _, _, _, _)
mmi_loop(A, B, U, V, n) ==
    IF B = 0 THEN (IF U < 0 THEN U + n ELSE U)
    ELSE LET q == A \div B IN mmi_loop(B, A - q * B, V, U - q * V, n)

modular_multiplicative_inverse(b, n) == mmi_loop(n, b, 0, 1, n)

\* Matrices are sequences of rows, indexed from 1: M[i+1][j+1] is the code's M[i][j].
ScaleRow(row, c, m) == [k \in DOMAIN row |-> (row[k] * c) % m]

SubRow(rowj, factor, rowi, m) == [k \in DOMAIN rowj |-> (rowj[k] - factor * rowi[k]) % m]

SwapRows(M, i, j) == [r \in DOMAIN M |-> IF r = i THEN M[j] ELSE IF r = j THEN M[i] ELSE M[r]]

\* utils.py:181-191, the rows j = from..n below the pivot row i
RECURSIVE EliminateBelow(_, _, _, _)
EliminateBelow(MI, i, j, m) ==
    LET M == MI[1]
        Id == MI[2]
        n == Len(M)
    IN IF j > n THEN MI
       ELSE IF M[j][i] % m # 0
            THEN LET factor == M[j][i]
                 IN EliminateBelow(<<[M EXCEPT ![j] = SubRow(M[j], factor, M[i], m)],
                                     [Id EXCEPT ![j] = SubRow(Id[j], factor, Id[i], m)]>>,
                                   i, j + 1, m)
            ELSE EliminateBelow(MI, i, j + 1, m)

\* utils.py:152-191, columns i..n; the result is None when no pivot is found
RECURSIVE ForwardElimination(_, _, _)
ForwardElimination(MI, i, m) ==
    LET M == MI[1]
        Id == MI[2]
        n == Len(M)
    IN IF i > n THEN L(MI)
       ELSE LET cand == {k \in i..n : M[k][i] % m # 0}
            IN IF cand = {} THEN None
               ELSE LET nz == CHOOSE k \in cand : \A k2 \in cand : k <= k2
                        M1 == SwapRows(M, i, nz)
                        Id1 == SwapRows(Id, i, nz)
                        pivot == M1[i][i] % m
                        pivot_inv == modular_multiplicative_inverse(pivot, m)
                        M2 == [M1 EXCEPT ![i] = ScaleRow(M1[i], pivot_inv, m)]
                        Id2 == [Id1 EXCEPT ![i] = ScaleRow(Id1[i], pivot_inv, m)]
                    IN ForwardElimination(EliminateBelow(<<M2, Id2>>, i, i + 1, m), i + 1, m)

\* utils.py:195-205, the rows j = from..1 above the pivot row i
RECURSIVE EliminateAbove(_, _, _, _)
EliminateAbove(MI, i, j, m) ==
    LET M == MI[1]
        Id == MI[2]
    IN IF j < 1 THEN MI
       ELSE IF M[j][i] % m # 0
            THEN LET factor == M[j][i]
                 IN EliminateAbove(<<[M EXCEPT ![j] = SubRow(M[j], factor, M[i], m)],
                                     [Id EXCEPT ![j] = SubRow(Id[j], factor, Id[i], m)]>>,
                                   i, j - 1, m)
            ELSE EliminateAbove(MI, i, j - 1, m)

\* utils.py:194-205
RECURSIVE BackSubstitution(_, _, _)
BackSubstitution(MI, i, m) ==
    IF i < 1 THEN MI ELSE BackSubstitution(EliminateAbove(MI, i, i - 1, m), i - 1, m)

IdentityMatrix(n) == [i \in 1..n |-> [j \in 1..n |-> IF i = j THEN 1 ELSE 0]]

\* None stands for the HTTPException "Matrix is not invertible mod p."
inverse_matrix_mod(matrix_dc, modulus) ==
    LET n == Len(matrix_dc)
        fwd == ForwardElimination(<<matrix_dc, IdentityMatrix(n)>>, 1, modulus)
    IN IF IsNone(fwd) THEN None
       ELSE L(BackSubstitution(fwd[2], n, modulus)[2])

multiply_matrix(matrix1, matrix2, modulus) ==
    LET n == Len(matrix1)
        m == Len(matrix2[1])
        l == Len(matrix2)
    IN [i \in 1..n |-> [j \in 1..m |->
          SumSeq([k \in 1..l |-> (matrix1[i][k] * matrix2[k][j]) % modulus]) % modulus]]

\* shares is a sequence of pairs <<x_i, y_i>>
RECURSIVE coefficient_loop(_, _, _, _, _)
coefficient_loop(shares, i, j, li, p) ==
    IF j > Len(shares) THEN li
    ELSE coefficient_loop(shares, i, j + 1,
            IF i # j
            THEN (li * (shares[j][1] * binary_exponentiation(shares[j][1] - shares[i][1], -1, p))) % p
            ELSE li,
            p)

computate_coefficients(shares, p) == [i \in DOMAIN shares |-> coefficient_loop(shares, i, 1, 1, p)]

RECURSIVE reconstruct_loop(_, _, _, _, _)
reconstruct_loop(shares, coefficients, i, secret, p) ==
    IF i > Len(shares) THEN secret
    ELSE reconstruct_loop(shares, coefficients, i + 1, (secret + shares[i][2] * coefficients[i]) % p, p)

reconstruct_secret(shares, coefficients, p) == reconstruct_loop(shares, coefficients, 1, 0, p)

RECURSIVE Pow(_, _)
Pow(b, e) == IF e = 0 THEN 1 ELSE b * Pow(b, e - 1)

\* coefficients[1..t] are the code's coefficients[0..t-1]
f(x, coefficients, p, t) == SumSeq([i \in 1..t |-> coefficients[i] * Pow(x, i - 1)]) % p

\* secure_randint(start, end): every value it can return
secure_randint(start, end) == start..end

\* Shamir(t, n, k0, p): every list of points it can return.  The coefficients are
\* drawn from [0, p-1], the first is overwritten by k0, and the last one, when it
\* is 0, is redrawn from [1, p-1] (for t = 1 the last one is k0 itself).
Shamir(t, n, k0, p) ==
    LET drawn == {[j \in 1..t |-> IF j = 1 THEN k0 ELSE c[j]] :
                     c \in [1..t -> secure_randint(0, p - 1)]}
        final == UNION {IF c[t] = 0
                        THEN {[c EXCEPT ![t] = w] : w \in secure_randint(1, p - 1)}
                        ELSE {c} : c \in drawn}
    IN {[i \in 1..n |-> <<i, f(i, c, p, t)>>] : c \in final}

(***************************************************************************)
(* Wire format.  hex(v) is Python's "0x.." / "-0x.." literal, kept as its  *)
(* sign and its base-16 digits (most significant first); int(s, 16) parses *)
(* it back.                                                                *)
(***************************************************************************)
RECURSIVE HexDigits(_)
HexDigits(v) == IF v < 16 THEN <<v>> ELSE HexDigits(v \div 16) \o <<v % 16>>

hex(v) == [neg |-> v < 0, digits |-> HexDigits(IF v < 0 THEN 0 - v ELSE v)]

RECURSIVE ParseDigits(_, _)
ParseDigits(ds, acc) == IF ds = <<>> THEN acc ELSE ParseDigits(Tail(ds), 16 * acc + Head(ds))

int16(h) == IF h.neg THEN 0 - ParseDigits(h.digits, 0) ELSE ParseDigits(h.digits, 0)

(***************************************************************************)
(* Deployment configuration: src/api/config.py.                            *)
(***************************************************************************)
\* config.py:14, the peer list; an endpoint is named by its position
SERVERS == <<1, 2, 3>>

\* config.py:17-23, no wireguard configuration
WIREGUARD_IPS == None

Procs == 1..Len(SERVERS)

\* config.py:30-57, the state of a freshly booted node
BootState ==
    [t |-> None, n |-> None, id |-> None, p |-> None, parties |-> None,
     multiplicative_share |-> None, additive_share |-> None, xor_share |-> None,
     shares |-> [client_shares |-> None, shared_r |-> None, shared_q |-> None, shared_u |-> None],
     A |-> None,
     random_number_bit_shares |-> L(<<>>), random_number_share |-> None,
     comparison_a |-> None, z_table |-> L(<<>>), Z_table |-> L(<<>>),
     comparison_a_bits |-> L(<<>>)]

(***************************************************************************)
(* Validation helpers: src/api/utils/utils.py:10-60.  Each is TRUE when    *)
(* the helper returns without raising.                                     *)
(***************************************************************************)
validate_not_initialized(s, required_keys) == \A key \in required_keys : IsNone(s[key])

validate_initialized(s, required_keys) == \A key \in required_keys : ~IsNone(s[key])

validate_initialized_shares(s, required_keys) ==
    \A key \in required_keys : key \in DOMAIN s.shares /\ ~IsNone(s.shares[key])

validate_initialized_shares_array(s, required_keys) ==
    \A key \in required_keys :
        /\ key \in DOMAIN s.shares
        /\ ~IsNone(s.shares[key])
        /\ IsList(s.shares[key])
        /\ \A k \in DOMAIN s.shares[key][2] : ~IsNone(s.shares[key][2][k])

\* the ints of a list of tagged ints
Ints(lst) == [k \in DOMAIN lst[2] |-> lst[2][k][2]]

(***************************************************************************)
(* A handler step of node i sets st, out (the peer messages it dispatches) *)
(* and resp (the request and the HTTP status of its answer).  A request    *)
(* that raises before it wrote anything leaves st unchanged.  For a        *)
(* handler that fans out to its peers, 201 stands for "validated and       *)
(* dispatched".                                                            *)
(***************************************************************************)
ReplyBody(i, op, args, code, body) ==
    resp' = [proc |-> i, op |-> op, args |-> args, code |-> code,
             rep |-> (resp.op = op /\ resp.proc = i), body |-> body]

Reply(i, op, args, code) == ReplyBody(i, op, args, code, None)

\* a handler that only reads the state and returns data
Answer(i, op, args, code, body) ==
    /\ st' = st
    /\ out' = {}
    /\ ReplyBody(i, op, args, code, body)

Reject(i, op, args, code) ==
    /\ st' = st
    /\ out' = {}
    /\ Reply(i, op, args, code)

Accept(i, op, args, code, s2, msgs) ==
    /\ st' = [st EXCEPT ![i] = s2]
    /\ out' = msgs
    /\ Reply(i, op, args, code)

\* initial_values without the check that no parameter is set yet: a second
\* initial-values/set overwrites the parameters and the shares
initial_values_again(s, servers, wireguard_ips, id, p_hex) ==
    LET n == Len(servers)
        t == (n - 1) \div 2
        parties == IF IsList(wireguard_ips) /\ Len(wireguard_ips[2]) = Len(servers)
                   THEN wireguard_ips[2] ELSE servers
    IN IF 2 * t + 1 # n
       THEN [code |-> 400, state |-> s]
       ELSE IF int16(p_hex) <= 0
       THEN [code |-> 400, state |-> s]
       ELSE [code |-> 201,
             state |-> [s EXCEPT !.t = I(t), !.n = I(n), !.id = I(id), !.p = I(int16(p_hex)),
                                 !.parties = L(parties),
                                 !.shares = [client_shares |-> L(<<>>), shared_r |-> NoneList(n),
                                             shared_q |-> NoneList(n), shared_u |-> NoneList(n)]]]

\* routers/initialization.py:71-131
initial_values(s, servers, wireguard_ips, id, p_hex) ==
    LET n == Len(servers)
        t == (n - 1) \div 2
        parties == IF IsList(wireguard_ips) /\ Len(wireguard_ips[2]) = Len(servers)
                   THEN wireguard_ips[2] ELSE servers
    IN IF ~validate_not_initialized(s, {"t", "n", "id", "p", "parties"})
       THEN [code |-> 400, state |-> s]
       ELSE IF 2 * t + 1 # n
       THEN [code |-> 400, state |-> s]
       ELSE IF int16(p_hex) <= 0
       THEN [code |-> 400, state |-> s]
       ELSE [code |-> 201,
             state |-> [s EXCEPT !.t = I(t), !.n = I(n), !.id = I(id), !.p = I(int16(p_hex)),
                                 !.parties = L(parties),
                                 !.shares = [client_shares |-> L(<<>>), shared_r |-> NoneList(n),
                                             shared_q |-> NoneList(n), shared_u |-> NoneList(n)]]]

\* routers/initialization.py:71-131 under the deployment SERVERS, WIREGUARD_IPS
set_initial_values(i, id, p_hex) ==
    LET done == initial_values(st[i], SERVERS, WIREGUARD_IPS, id, p_hex)
    IN IF done.code = 201
       THEN Accept(i, "set_initial_values", <<id, p_hex>>, 201, done.state, {})
       ELSE Reject(i, "set_initial_values", <<id, p_hex>>, done.code)

\* calculate_A with t + 1 leading ones in P: the term of degree t survives
MatrixA_keeps_degree_t(t, n, p) ==
    LET B == [j \in 1..n |-> [k \in 1..n |-> binary_exponentiation(k, j - 1, p)]]
        B_inv == inverse_matrix_mod(B, p)
        P == [i \in 1..n |-> [j \in 1..n |-> IF i = j /\ i <= t + 1 THEN 1 ELSE 0]]
    IN IF IsNone(B_inv) THEN None
       ELSE L(multiply_matrix(multiply_matrix(B_inv[2], P, p), B, p))

\* routers/initialization.py:242-259
MatrixA(t, n, p) ==
    LET B == [j \in 1..n |-> [k \in 1..n |-> binary_exponentiation(k, j - 1, p)]]
        B_inv == inverse_matrix_mod(B, p)
        P == [i \in 1..n |-> [j \in 1..n |-> IF i = j /\ i <= t THEN 1 ELSE 0]]
    IN IF IsNone(B_inv) THEN None
       ELSE L(multiply_matrix(multiply_matrix(B_inv[2], P, p), B, p))


\* calculate_A without validate_not_initialized(["A"]): a second call computes and
\* stores the matrix again
calculate_A_again(i) ==
    LET s == st[i]
        A == MatrixA(s.t[2], s.n[2], s.p[2])
    IN IF ~validate_initialized(s, {"t", "n", "p"})
       THEN Reject(i, "calculate_A", <<>>, 400)
       ELSE IF IsNone(A)
       THEN Reject(i, "calculate_A", <<>>, 400)
       ELSE Accept(i, "calculate_A", <<>>, 201, [s EXCEPT !.A = A], {})

\* routers/initialization.py:228-261
calculate_A(i) ==
    LET s == st[i]
        A == MatrixA(s.t[2], s.n[2], s.p[2])
    IN IF ~validate_initialized(s, {"t", "n", "p"}) \/ ~validate_not_initialized(s, {"A"})
       THEN Reject(i, "calculate_A", <<>>, 400)
       ELSE IF IsNone(A)
       THEN Reject(i, "calculate_A", <<>>, 400)
       ELSE Accept(i, "calculate_A", <<>>, 201, [s EXCEPT !.A = A], {})

\* routers/shares.py:177-195
set_shares(i, share_name, share_value) ==
    LET s == st[i]
    IN Accept(i, "set_shares", <<share_name, share_value>>, 201,
              [s EXCEPT !.shares = Put(s.shares, share_name, I(int16(share_value)))], {})

\* The peer messages of a fan-out (redistribution.py:81-88, 273-280): one to every
\* index i of range(n) other than id - 1, addressed to parties[i].
PeerMessages(s, kind, vals) ==
    {[kind |-> kind, to |-> s.parties[2][k], party_id |-> s.id[2], val |-> hex(vals[k])] :
        k \in {k \in 1..s.n[2] : k # s.id[2]}}

\* a fan-out that leaves the node's own slot as it was
OwnSlot_not_written(s, key, vals) == s

\* state["shares"][key][id - 1] = v inside the loop over range(n): nothing is
\* written when id - 1 is no index of range(n)
OwnSlot(s, key, vals) ==
    IF s.id[2] \in 1..s.n[2]
    THEN [s EXCEPT !.shares = Put(s.shares, key,
                L([s.shares[key][2] EXCEPT ![s.id[2]] = I(vals[s.id[2]])]))]
    ELSE s

\* routers/redistribution.py:64-92
redistribute_q(i) ==
    LET s == st[i]
    IN IF \/ ~validate_initialized(s, {"t", "n", "p", "id", "parties"})
          \/ ~validate_initialized_shares(s, {"shared_q"})
       THEN Reject(i, "redistribute_q", <<>>, 400)
       ELSE IF s.id[2] \in 1..s.n[2] /\ ~IsList(s.shares["shared_q"])
       THEN Reject(i, "redistribute_q", <<>>, 500)
       ELSE \E q \in Shamir(2 * s.t[2], s.n[2], 0, s.p[2]) :
              LET vals == [k \in 1..s.n[2] |-> q[k][2]]
              IN Accept(i, "redistribute_q", <<>>, 201,
                        OwnSlot(s, "shared_q", vals), PeerMessages(s, "q", vals))

\* set_received without the check that the slot is still None: the last write wins
set_received_last_write_wins(i, op, key, trusted, party_id, value_hex) ==
    LET s == st[i]
        args == <<trusted, party_id, value_hex>>
    IN IF ~trusted
       THEN Reject(i, op, args, 403)
       ELSE IF ~validate_initialized_shares(s, {key})
       THEN Reject(i, op, args, 400)
       ELSE IF ~IsList(s.shares[key])
       THEN Reject(i, op, args, 500)
       ELSE IF party_id > Len(s.shares[key][2]) \/ party_id < 1
       THEN Reject(i, op, args, 400)
       ELSE Accept(i, op, args, 201,
                   [s EXCEPT !.shares = Put(s.shares, key,
                        L([s.shares[key][2] EXCEPT ![party_id] = I(int16(value_hex))]))],
                   {})

\* routers/redistribution.py:136-194 (kind "q", key "shared_q") and 328-385
\* (kind "r", key "shared_r")
set_received(i, op, key, trusted, party_id, value_hex) ==
    LET s == st[i]
        args == <<trusted, party_id, value_hex>>
    IN IF ~trusted
       THEN Reject(i, op, args, 403)
       ELSE IF ~validate_initialized_shares(s, {key})
       THEN Reject(i, op, args, 400)
       ELSE IF ~IsList(s.shares[key])
       THEN Reject(i, op, args, 500)
       ELSE IF party_id > Len(s.shares[key][2]) \/ party_id < 1
       THEN Reject(i, op, args, 400)
       ELSE IF ~IsNone(s.shares[key][2][party_id])
       THEN Reject(i, op, args, 400)
       ELSE Accept(i, op, args, 201,
                   [s EXCEPT !.shares = Put(s.shares, key,
                        L([s.shares[key][2] EXCEPT ![party_id] = I(int16(value_hex))]))],
                   {})

\* routers/redistribution.py:136-194
set_received_q(i, trusted, party_id, shared_q) ==
    set_received(i, "set_received_q", "shared_q", trusted, party_id, shared_q)

\* routers/redistribution.py:328-385
set_received_r(i, trusted, party_id, shared_r) ==
    set_received(i, "set_received_r", "shared_r", trusted, party_id, shared_r)

\* A[id - 1]: a Python index, negative ones counting from the end; 0 when the
\* index is out of range (IndexError)
PyIndex(k, len) == IF k >= 0 /\ k < len THEN k + 1 ELSE IF k < 0 /\ k >= 0 - len THEN k + len + 1 ELSE 0

\* the r-shares taken from the column id - 1 of A instead of its row
RShares_column(s, first_share, second_share) ==
    LET qs == Ints(s.shares["shared_q"])
        multiplied_shares == ((first_share * second_share) + SumSeq(qs)) % s.p[2]
        col == PyIndex(s.id[2] - 1, Len(s.A[2]))
    IN [k \in 1..s.n[2] |-> (multiplied_shares * s.A[2][k][col]) % s.p[2]]

\* routers/redistribution.py:262-268
RShares(s, first_share, second_share) ==
    LET qs == Ints(s.shares["shared_q"])
        multiplied_shares == ((first_share * second_share) + SumSeq(qs)) % s.p[2]
        row == s.A[2][PyIndex(s.id[2] - 1, Len(s.A[2]))]
    IN [k \in 1..s.n[2] |-> (multiplied_shares * row[k]) % s.p[2]]

\* redistribute_r that only asks for the shared_q list to exist and sums the q-shares
\* that have arrived
redistribute_r_partial_q(i, first_share_name, second_share_name) ==
    LET s == st[i]
        args == <<first_share_name, second_share_name>>
        first_share == Get(s.shares, first_share_name)
        second_share == Get(s.shares, second_share_name)
    IN IF \/ ~validate_initialized(s, {"n", "p", "t", "id", "parties", "A"})
          \/ ~validate_initialized_shares(s, {"shared_r", "shared_q"})
       THEN Reject(i, "redistribute_r", args, 400)
       ELSE IF IsNone(first_share) \/ IsNone(second_share)
       THEN Reject(i, "redistribute_r", args, 400)
       ELSE IF \/ ~IsInt(first_share) \/ ~IsInt(second_share)
               \/ ~IsList(s.shares["shared_q"])
               \/ PyIndex(s.id[2] - 1, Len(s.A[2])) = 0
               \/ (s.id[2] \in 1..s.n[2] /\ ~IsList(s.shares["shared_r"]))
       THEN Reject(i, "redistribute_r", args, 500)
       ELSE LET arrived == [k \in DOMAIN s.shares["shared_q"][2] |->
                               IF IsInt(s.shares["shared_q"][2][k])
                               THEN s.shares["shared_q"][2][k] ELSE I(0)]
                s2 == [s EXCEPT !.shares = Put(s.shares, "shared_q", L(arrived))]
                r == RShares(s2, first_share[2], second_share[2])
            IN Accept(i, "redistribute_r", args, 201,
                      OwnSlot(s, "shared_r", r), PeerMessages(s, "r", r))

\* routers/redistribution.py:230-284
redistribute_r(i, first_share_name, second_share_name) ==
    LET s == st[i]
        args == <<first_share_name, second_share_name>>
        first_share == Get(s.shares, first_share_name)
        second_share == Get(s.shares, second_share_name)
    IN IF \/ ~validate_initialized(s, {"n", "p", "t", "id", "parties", "A"})
          \/ ~validate_initialized_shares(s, {"shared_r"})
          \/ ~validate_initialized_shares_array(s, {"shared_q"})
       THEN Reject(i, "redistribute_r", args, 400)
       ELSE IF IsNone(first_share) \/ IsNone(second_share)
       THEN Reject(i, "redistribute_r", args, 400)
       ELSE IF \/ ~IsInt(first_share) \/ ~IsInt(second_share)
               \/ \E k \in DOMAIN s.shares["shared_q"][2] : ~IsInt(s.shares["shared_q"][2][k])
               \/ PyIndex(s.id[2] - 1, Len(s.A[2])) = 0
               \/ (s.id[2] \in 1..s.n[2] /\ ~IsList(s.shares["shared_r"]))
       THEN Reject(i, "redistribute_r", args, 500)
       ELSE LET r == RShares(s, first_share[2], second_share[2])
            IN Accept(i, "redistribute_r", args, 201,
                      OwnSlot(s, "shared_r", r), PeerMessages(s, "r", r))

\* PUT /api/calculate-multiplicative-share of the router generation (called
\* without a body at tests/__init__.py:189-204; its result is read by
\* routers/shares.py:142-144 and routers/xor.py:58-62)
calculate_multiplicative_share(i) ==
    LET s == st[i]
    IN IF \/ ~validate_initialized(s, {"n", "p"})
          \/ ~validate_initialized_shares_array(s, {"shared_r"})
       THEN Reject(i, "calculate_multiplicative_share", <<>>, 400)
       ELSE IF \E k \in DOMAIN s.shares["shared_r"][2] : ~IsInt(s.shares["shared_r"][2][k])
       THEN Reject(i, "calculate_multiplicative_share", <<>>, 500)
       ELSE Accept(i, "calculate_multiplicative_share", <<>>, 201,
                   [s EXCEPT !.multiplicative_share =
                        I(SumSeq(Ints(s.shares["shared_r"])) % s.p[2])],
                   {})

\* routers/shares.py:127-146, 302-321 and routers/xor.py:102-121
set_share_from(i, op, register, share_name) ==
    LET s == st[i]
    IN IF ~validate_initialized(s, {register})
       THEN Reject(i, op, <<share_name>>, 400)
       ELSE Accept(i, op, <<share_name>>, 201,
                   [s EXCEPT !.shares = Put(s.shares, share_name, s[register])], {})

\* routers/shares.py:127-146
set_share_from_multiplicative_share(i, share_name) ==
    set_share_from(i, "set_share_from_multiplicative_share", "multiplicative_share", share_name)

\* routers/shares.py:302-321
set_share_from_additive_share(i, share_name) ==
    set_share_from(i, "set_share_from_additive_share", "additive_share", share_name)

\* routers/xor.py:102-121
set_share_from_xor_share(i, share_name) ==
    set_share_from(i, "set_share_from_xor_share", "xor_share", share_name)

\* the additive share without the reduction mod p
calculate_additive_share_unreduced(i, first_share_name, second_share_name) ==
    LET s == st[i]
        args == <<first_share_name, second_share_name>>
        first_share == Get(s.shares, first_share_name)
        second_share == Get(s.shares, second_share_name)
    IN IF \/ ~validate_initialized_shares(s, {first_share_name, second_share_name})
          \/ ~validate_initialized(s, {"p"})
       THEN Reject(i, "calculate_additive_share", args, 400)
       ELSE IF ~IsInt(first_share) \/ ~IsInt(second_share)
       THEN Reject(i, "calculate_additive_share", args, 500)
       ELSE Accept(i, "calculate_additive_share", args, 201,
                   [s EXCEPT !.additive_share = I(first_share[2] + second_share[2])],
                   {})

\* routers/shares.py:233-264
calculate_additive_share(i, first_share_name, second_share_name) ==
    LET s == st[i]
        args == <<first_share_name, second_share_name>>
        first_share == Get(s.shares, first_share_name)
        second_share == Get(s.shares, second_share_name)
    IN IF \/ ~validate_initialized_shares(s, {first_share_name, second_share_name})
          \/ ~validate_initialized(s, {"p"})
       THEN Reject(i, "calculate_additive_share", args, 400)
       ELSE IF ~IsInt(first_share) \/ ~IsInt(second_share)
       THEN Reject(i, "calculate_additive_share", args, 500)
       ELSE Accept(i, "calculate_additive_share", args, 201,
                   [s EXCEPT !.additive_share = I((first_share[2] + second_share[2]) % s.p[2])],
                   {})

\* the XOR share as the sum minus the product, once
calculate_xor_share_single_product(i) ==
    LET s == st[i]
    IN IF ~validate_initialized(s, {"additive_share", "multiplicative_share", "p"})
       THEN Reject(i, "calculate_xor_share", <<>>, 400)
       ELSE Accept(i, "calculate_xor_share", <<>>, 201,
                   [s EXCEPT !.xor_share =
                        I((s.additive_share[2] - s.multiplicative_share[2]) % s.p[2])],
                   {})

\* routers/xor.py:47-64
calculate_xor_share(i) ==
    LET s == st[i]
    IN IF ~validate_initialized(s, {"additive_share", "multiplicative_share", "p"})
       THEN Reject(i, "calculate_xor_share", <<>>, 400)
       ELSE Accept(i, "calculate_xor_share", <<>>, 201,
                   [s EXCEPT !.xor_share =
                        I((s.additive_share[2] - 2 * s.multiplicative_share[2]) % s.p[2])],
                   {})

\* routers/reset.py:49-77
reset_calculation(i) ==
    LET s == st[i]
    IN IF ~validate_initialized(s, {"n"})
       THEN Reject(i, "reset_calculation", <<>>, 400)
       ELSE Accept(i, "reset_calculation", <<>>, 201,
                   [s EXCEPT !.multiplicative_share = None, !.additive_share = None,
                             !.xor_share = None,
                             !.shares = Update(s.shares,
                                  [shared_r |-> NoneList(s.n[2]), shared_q |-> NoneList(s.n[2])])],
                   {})

\* a factory reset that leaves an empty client_shares list behind when there was none
factory_reset_fresh_client_shares(i) ==
    Accept(i, "factory_reset", <<>>, 201,
           [t |-> None, n |-> None, id |-> None, p |-> None, parties |-> None,
            multiplicative_share |-> None, additive_share |-> None, xor_share |-> None,
            shares |-> [client_shares |-> IF IsNone(st[i].shares["client_shares"])
                                          THEN L(<<>>) ELSE None,
                        shared_r |-> None, shared_q |-> None,
                        shared_u |-> None, u |-> None, v |-> None],
            A |-> None,
            random_number_bit_shares |-> L(<<>>), random_number_share |-> None,
            comparison_a |-> None, z_table |-> L(<<>>), Z_table |-> L(<<>>),
            comparison_a_bits |-> L(<<>>)],
           {})

\* routers/reset.py:184-227
factory_reset(i) ==
    Accept(i, "factory_reset", <<>>, 201,
           [t |-> None, n |-> None, id |-> None, p |-> None, parties |-> None,
            multiplicative_share |-> None, additive_share |-> None, xor_share |-> None,
            shares |-> [client_shares |-> None, shared_r |-> None, shared_q |-> None,
                        shared_u |-> None, u |-> None, v |-> None],
            A |-> None,
            random_number_bit_shares |-> L(<<>>), random_number_share |-> None,
            comparison_a |-> None, z_table |-> L(<<>>), Z_table |-> L(<<>>),
            comparison_a_bits |-> L(<<>>)],
           {})

(***************************************************************************)
(* The trust gate of the peer interface, routers/reconstruction.py:62-86.  *)
(* An address is a string; an absent or empty header is "", as is the host  *)
(* of a request without a client.                                          *)
(***************************************************************************)
\* the value of the parameter "X_Forwarded_For = Header(None)" in a direct call
\* that passes no header (reconstruction.py:98): the default object itself, which
\* is truthy and is not a string
HeaderDefault == "Header(None)"

\* X_Forwarded_For.split(":")[0] on the addresses of the runs
split_colon_first(X_Forwarded_For) ==
    CASE X_Forwarded_For = "10.0.0.1:8000" -> "10.0.0.1"
      [] X_Forwarded_For = "10.0.0.9:8000" -> "10.0.0.9"
      [] OTHER -> X_Forwarded_For

\* request_is_from_trusted_ip that trusts every request carrying the header, as if
\* the proxy had vouched for it
request_is_from_trusted_ip_any_header(trusted_ips, X_Forwarded_For, host) ==
    IF ~IsList(trusted_ips)
    THEN [raised |-> 0, is_trusted |-> FALSE]
    ELSE IF X_Forwarded_For = HeaderDefault
    THEN [raised |-> 500, is_trusted |-> FALSE]
    ELSE IF X_Forwarded_For # ""
    THEN [raised |-> 0, is_trusted |-> TRUE]
    ELSE IF \E k \in DOMAIN trusted_ips[2] : trusted_ips[2][k] = host
    THEN [raised |-> 0, is_trusted |-> TRUE]
    ELSE [raised |-> 400, is_trusted |-> FALSE]

\* routers/reconstruction.py:62-86.  trusted_ips is the list chosen by
\* USING_WIREGUARD, or None; host is request.client.host.  The result is [raised |-> 0, is_trusted |-> b] or the status of
\* the exception raised: 400 from the function, 500 for the AttributeError of
\* split on the default object.
request_is_from_trusted_ip(trusted_ips, X_Forwarded_For, host) ==
    IF ~IsList(trusted_ips)
    THEN [raised |-> 0, is_trusted |-> FALSE]
    ELSE IF X_Forwarded_For = HeaderDefault
    THEN [raised |-> 500, is_trusted |-> FALSE]
    ELSE IF X_Forwarded_For # ""
    THEN [raised |-> 0,
          is_trusted |-> \E k \in DOMAIN trusted_ips[2] :
                             trusted_ips[2][k] = split_colon_first(X_Forwarded_For)]
    ELSE IF \E k \in DOMAIN trusted_ips[2] : trusted_ips[2][k] = host
    THEN [raised |-> 0, is_trusted |-> TRUE]
    ELSE [raised |-> 400, is_trusted |-> FALSE]

\* str.lower() on the share names of the runs
lower(name) ==
    CASE name = "Shared_Q" -> "shared_q"
      [] name = "CLIENT_SHARES" -> "client_shares"
      [] name = " Shared_U " -> " shared_u "
      [] OTHER -> name

\* str.strip().lower() on the share names of the runs
strip_lower(name) ==
    CASE name = " res" -> "res"
      [] name = " shared_q" -> "shared_q"
      [] name = " Shared_U " -> "shared_u"
      [] OTHER -> lower(name)

\* get_share_to_reconstruct that serves every key of shares, without removing
\* the forbidden ones
get_share_to_reconstruct_any_key(s, trusted, share_to_reconstruct) ==
    LET shares == DOMAIN s.shares
    IN IF ~trusted THEN <<403>>
       ELSE IF strip_lower(share_to_reconstruct) \notin shares THEN <<403>>
       ELSE IF \/ ~validate_initialized(s, {"id"})
               \/ ~validate_initialized_shares(s, {share_to_reconstruct})
       THEN <<400>>
       ELSE IF share_to_reconstruct \in shares /\ ~IsInt(s.shares[share_to_reconstruct])
       THEN <<500>>
       ELSE <<200, [id |-> s.id[2],
                    share_to_reconstruct |->
                        hex(IF share_to_reconstruct \in shares
                            THEN s.shares[share_to_reconstruct][2] ELSE 0)]>>

\* routers/reconstruction.py:88-124, as seen by the caller: <<200, [id, share]>> or
\* <<code>> of the error
get_share_to_reconstruct(s, trusted, share_to_reconstruct) ==
    LET forbidden_keys == {"client_shares", "shared_r", "shared_q", "shared_u"}
        shares == {k \in DOMAIN s.shares : lower(k) \notin forbidden_keys}
    IN IF ~trusted THEN <<403>>
       ELSE IF strip_lower(share_to_reconstruct) \notin shares THEN <<403>>
       ELSE IF \/ ~validate_initialized(s, {"id"})
               \/ ~validate_initialized_shares(s, {share_to_reconstruct})
       THEN <<400>>
       ELSE IF share_to_reconstruct \in shares /\ ~IsInt(s.shares[share_to_reconstruct])
       THEN <<500>>
       ELSE <<200, [id |-> s.id[2],
                    share_to_reconstruct |->
                        hex(IF share_to_reconstruct \in shares
                            THEN s.shares[share_to_reconstruct][2] ELSE 0)]>>

\* reconstruction.py:88-124 behind the gate, which it calls without the header
\* of the request (reconstruction.py:98)
served_share_to_reconstruct(s, trusted_ips, host, share_to_reconstruct) ==
    LET gate == request_is_from_trusted_ip(trusted_ips, HeaderDefault, host)
    IN IF gate.raised # 0 THEN <<gate.raised>>
       ELSE get_share_to_reconstruct(s, gate.is_trusted, share_to_reconstruct)

\* random.sample(population, k): every list it can return
sample(population, k) ==
    {c \in [1..k -> population] : \A a, b \in 1..k : a # b => c[a] # c[b]}

\* the address from which node i calls its peers
Address(i) ==
    CASE i = 1 -> "10.0.0.1" [] i = 2 -> "10.0.0.2" [] i = 3 -> "10.0.0.3"
      [] i = 4 -> "10.0.0.4" [] OTHER -> "10.0.0.5"

\* config.py:6-10: TRUSTED_IPS of the deployment SERVERS, the addresses of its nodes
TRUSTED_IPS == L([i \in DOMAIN SERVERS |-> Address(i)])

\* return_secret with asyncio.gather(..., return_exceptions=True) and the failed
\* peers left out: the secret is computed from the points that arrived
reconstruct_secret_from_answering_peers(i, trusted_ips, share_to_reconstruct) ==
    LET s == st[i]
        args == <<share_to_reconstruct>>
    IN IF \/ ~validate_initialized(s, {"parties", "id", "t", "p"})
          \/ ~validate_initialized_shares(s, {share_to_reconstruct})
       THEN Reject(i, "return_secret", args, 400)
       ELSE LET parties == {s.parties[2][k] : k \in {k \in DOMAIN s.parties[2] : k # s.id[2]}}
            IN IF s.t[2] - 1 < 0 \/ s.t[2] - 1 > Cardinality(parties)
               THEN Reject(i, "return_secret", args, 500)
               ELSE \E selected_parties \in sample(parties, s.t[2] - 1) :
                      LET results == [k \in DOMAIN selected_parties |->
                                        served_share_to_reconstruct(st[selected_parties[k]],
                                                                    trusted_ips, Address(i),
                                                                    share_to_reconstruct)]
                          arrived == SelectSeq(results, LAMBDA r : r[1] = 200)
                          own == s.shares[share_to_reconstruct]
                      IN IF ~IsInt(own)
                         THEN Reject(i, "return_secret", args, 500)
                         ELSE LET calculated_shares ==
                                      [k \in DOMAIN arrived |->
                                          <<arrived[k][2].id,
                                            int16(arrived[k][2].share_to_reconstruct)>>]
                                      \o <<(<<s.id[2], own[2]>>)>>
                                  coefficients == computate_coefficients(calculated_shares, s.p[2])
                                  secret == reconstruct_secret(calculated_shares, coefficients, s.p[2])
                              IN Answer(i, "return_secret", args, 200, hex(secret % s.p[2]))

\* routers/reconstruction.py:156-207 in a deployment whose nodes trust trusted_ips.
\* The peers are asked through return-share-to-reconstruct; a peer that does not
\* answer 200 makes send_get_request raise 400 (utils.py:86-106).
reconstruct_secret_from_peers(i, trusted_ips, share_to_reconstruct) ==
    LET s == st[i]
        args == <<share_to_reconstruct>>
    IN IF \/ ~validate_initialized(s, {"parties", "id", "t", "p"})
          \/ ~validate_initialized_shares(s, {share_to_reconstruct})
       THEN Reject(i, "return_secret", args, 400)
       ELSE LET parties == {s.parties[2][k] : k \in {k \in DOMAIN s.parties[2] : k # s.id[2]}}
            IN IF s.t[2] - 1 < 0 \/ s.t[2] - 1 > Cardinality(parties)
               THEN Reject(i, "return_secret", args, 500)
               ELSE \E selected_parties \in sample(parties, s.t[2] - 1) :
                      LET results == [k \in DOMAIN selected_parties |->
                                        served_share_to_reconstruct(st[selected_parties[k]],
                                                                    trusted_ips, Address(i),
                                                                    share_to_reconstruct)]
                          own == s.shares[share_to_reconstruct]
                      IN IF \E k \in DOMAIN results : results[k][1] # 200
                         THEN Reject(i, "return_secret", args, 400)
                         ELSE IF ~IsInt(own)
                         THEN Reject(i, "return_secret", args, 500)
                         ELSE LET calculated_shares ==
                                      [k \in DOMAIN results |->
                                          <<results[k][2].id,
                                            int16(results[k][2].share_to_reconstruct)>>]
                                      \o <<(<<s.id[2], own[2]>>)>>
                                  coefficients == computate_coefficients(calculated_shares, s.p[2])
                                  secret == reconstruct_secret(calculated_shares, coefficients, s.p[2])
                              IN Answer(i, "return_secret", args, 200, hex(secret % s.p[2]))

\* routers/reconstruction.py:156-207 under the deployment SERVERS, TRUSTED_IPS
return_secret(i, share_to_reconstruct) ==
    reconstruct_secret_from_peers(i, TRUSTED_IPS, share_to_reconstruct)

(***************************************************************************)
(* The comparison: src/api/routers/shares.py, xor.py and comparison.py.    *)
(* A client share is the tuple (uid, share) and a stored random bit the    *)
(* tuple (id, share); the bits of the opened a are plain ints.             *)
(***************************************************************************)
\* routers/shares.py:50-87, called by the client whose token carries uid.  The
\* loop 'for x, _ in client_shares' raises TypeError when the slot is no list.
set_client_shares(i, uid, share) ==
    LET s == st[i]
        args == <<uid, share>>
        client_shares == Get(s.shares, "client_shares")
    IN IF ~validate_initialized_shares(s, {"client_shares"})
       THEN Reject(i, "set_client_shares", args, 400)
       ELSE IF ~IsList(client_shares)
       THEN Reject(i, "set_client_shares", args, 500)
       ELSE IF \E k \in DOMAIN client_shares[2] : client_shares[2][k][2] = I(uid)
       THEN Reject(i, "set_client_shares", args, 400)
       ELSE Accept(i, "set_client_shares", args, 201,
                   [s EXCEPT !.shares = Put(s.shares, "client_shares",
                        L(Append(client_shares[2], Pair(I(uid), I(int16(share))))))],
                   {})

\* routers/xor.py:159-185
set_random_number_bit_share_to_temporary_random_bit_share(i, bit_index) ==
    LET s == st[i]
        args == <<bit_index>>
        old == s.random_number_bit_shares[2]
        padded == old \o Times(None, bit_index + 1 - Len(old))
        slot == PyIndex(bit_index, Len(padded))
    IN IF \/ ~validate_initialized(s, {"id"})
          \/ ~validate_initialized_shares(s, {"temporary_random_bit"})
       THEN Reject(i, "set_random_number_bit_share_to_temporary_random_bit_share", args, 400)
       ELSE IF slot = 0
       THEN Reject(i, "set_random_number_bit_share_to_temporary_random_bit_share", args, 500)
       ELSE Accept(i, "set_random_number_bit_share_to_temporary_random_bit_share", args, 201,
                   [s EXCEPT !.random_number_bit_shares =
                        L([padded EXCEPT ![slot] =
                              Pair(s.id, s.shares["temporary_random_bit"])])],
                   {})

\* routers/xor.py:218-254: sum of 2**i * shares[i][1], reduced mod p
calculate_share_of_random_number(i) ==
    LET s == st[i]
        shares == s.random_number_bit_shares[2]
    IN IF \/ shares = <<>>
          \/ \E k \in DOMAIN shares : ~IsPair(shares[k])
          \/ \E k \in DOMAIN shares : IsPair(shares[k]) /\ ~IsInt(shares[k][3])
          \/ ~IsInt(s.p)
       THEN Reject(i, "calculate_share_of_random_number", <<>>, 500)
       ELSE Accept(i, "calculate_share_of_random_number", <<>>, 201,
                   [s EXCEPT !.random_number_share =
                        I(SumSeq([k \in DOMAIN shares |-> Pow(2, k - 1) * shares[k][3][2]])
                          % s.p[2])],
                   {})

\* next((y for x, y in client_shares if x == client_id), None)
ClientShare(client_shares, client_id) ==
    LET hits == {k \in DOMAIN client_shares[2] : client_shares[2][k][2] = I(client_id)}
    IN IF hits = {} THEN None
       ELSE client_shares[2][CHOOSE k \in hits : \A h \in hits : k <= h][3]

\* routers/comparison.py:79-139
calculate_a_comparison(i, first_client_id, second_client_id, l, k) ==
    LET s == st[i]
        args == <<first_client_id, second_client_id, l, k>>
        client_shares == Get(s.shares, "client_shares")
        first_client_share == ClientShare(client_shares, first_client_id)
        second_client_share == ClientShare(client_shares, second_client_id)
    IN IF \/ ~validate_initialized(s, {"random_number_share"})
          \/ ~validate_initialized_shares(s, {"client_shares"})
       THEN Reject(i, "calculate_a_comparison", args, 400)
       ELSE IF Len(client_shares[2]) < 2 \/ first_client_id = second_client_id
       THEN Reject(i, "calculate_a_comparison", args, 400)
       ELSE IF IsNone(first_client_share) \/ IsNone(second_client_share)
       THEN Reject(i, "calculate_a_comparison", args, 400)
       ELSE Accept(i, "calculate_a_comparison", args, 201,
                   [s EXCEPT !.shares = Put(s.shares, "comparison_a",
                        I(Pow(2, l + k + 1) - s.random_number_share[2] + Pow(2, l)
                          + first_client_share[2] - second_client_share[2]))],
                   {})

\* routers/comparison.py:170-199.  The bits are padded to l + k; when fewer than l
\* bits exist (k < 0) the copy loop raises at its first index, after the three
\* fields have been replaced.
prepare_z_tables(i, opened_a, l, k) ==
    LET s == st[i]
        args == <<opened_a, l, k>>
        bits == binary(int16(opened_a))
        a_bin == bits \o Times(0, l + k - Len(bits))
        comparison_a_bits == L([j \in DOMAIN a_bin |-> I(a_bin[j])])
        table == L([j \in 1..l |-> comparison_a_bits[2][j]])
    IN IF l > 0 /\ Len(a_bin) < l
       THEN Accept(i, "prepare_z_tables", args, 500,
                   [s EXCEPT !.comparison_a_bits = comparison_a_bits,
                             !.z_table = NoneList(l), !.Z_table = NoneList(l)],
                   {})
       ELSE Accept(i, "prepare_z_tables", args, 201,
                   [s EXCEPT !.comparison_a_bits = comparison_a_bits,
                             !.z_table = table, !.Z_table = table],
                   {})

\* routers/comparison.py:239-271.  first_share + second_share raises TypeError
\* unless both are ints.
calculate_additive_share_of_z_table_arguments(i, index) ==
    LET s == st[i]
        args == <<index>>
    IN IF ~validate_initialized(s, {"p"})
       THEN Reject(i, "calculate_additive_share_of_z_table_arguments", args, 400)
       ELSE IF \/ index < 0
               \/ index >= Len(s.comparison_a_bits[2])
               \/ index >= Len(s.random_number_bit_shares[2])
       THEN Reject(i, "calculate_additive_share_of_z_table_arguments", args, 400)
       ELSE LET first_share == s.comparison_a_bits[2][index + 1]
                second_share == s.random_number_bit_shares[2][index + 1]
            IN IF ~IsInt(first_share) \/ ~IsInt(second_share)
               THEN Reject(i, "calculate_additive_share_of_z_table_arguments", args, 500)
               ELSE Accept(i, "calculate_additive_share_of_z_table_arguments", args, 201,
                           [s EXCEPT !.additive_share =
                                I((first_share[2] + second_share[2]) % s.p[2])],
                           {})

\* routers/comparison.py:311-372.  (first_share * second_share) + sum(qs) raises
\* TypeError unless both are ints: an int times a tuple is a tuple.
calculate_r_of_z_table(i, index) ==
    LET s == st[i]
        args == <<index>>
    IN IF \/ ~validate_initialized(s, {"p", "A", "n", "id"})
          \/ ~validate_initialized_shares_array(s, {"shared_q"})
       THEN Reject(i, "calculate_r_of_z_table", args, 400)
       ELSE IF \/ index < 0
               \/ index >= Len(s.comparison_a_bits[2])
               \/ index >= Len(s.random_number_bit_shares[2])
       THEN Reject(i, "calculate_r_of_z_table", args, 400)
       ELSE LET first_share == s.comparison_a_bits[2][index + 1]
                second_share == s.random_number_bit_shares[2][index + 1]
            IN IF IsNone(first_share) \/ IsNone(second_share)
               THEN Reject(i, "calculate_r_of_z_table", args, 400)
               ELSE IF \/ ~IsInt(first_share) \/ ~IsInt(second_share)
                       \/ \E k \in DOMAIN s.shares["shared_q"][2] :
                              ~IsInt(s.shares["shared_q"][2][k])
                       \/ PyIndex(s.id[2] - 1, Len(s.A[2])) = 0
                       \/ (s.id[2] \in 1..s.n[2] /\ ~IsList(s.shares["shared_r"]))
                       \/ ~IsList(s.parties)
               THEN Reject(i, "calculate_r_of_z_table", args, 500)
               ELSE LET r == RShares(s, first_share[2], second_share[2])
                    IN Accept(i, "calculate_r_of_z_table", args, 201,
                              OwnSlot(s, "shared_r", r), PeerMessages(s, "r", r))

\* routers/comparison.py:412-434
set_z_table_to_xor_share(i, index) ==
    LET s == st[i]
        args == <<index>>
    IN IF ~validate_initialized(s, {"xor_share"})
       THEN Reject(i, "set_z_table_to_xor_share", args, 400)
       ELSE IF index < 0 \/ index >= Len(s.z_table[2])
       THEN Reject(i, "set_z_table_to_xor_share", args, 400)
       ELSE Accept(i, "set_z_table_to_xor_share", args, 201,
                   [s EXCEPT !.z_table = L([s.z_table[2] EXCEPT ![index + 1] = s.xor_share])],
                   {})

\* routers/comparison.py:474-503
initialize_z_and_Z(i, l) ==
    LET s == st[i]
        args == <<l>>
    IN IF l < 1 \/ l > Len(s.z_table[2]) \/ l > Len(s.Z_table[2])
       THEN Reject(i, "initialize_z_and_Z", args, 400)
       ELSE Accept(i, "initialize_z_and_Z", args, 201,
                   [s EXCEPT !.shares = Update(s.shares,
                        [z |-> s.z_table[2][l], Z |-> s.Z_table[2][l]])],
                   {})

\* routers/comparison.py:541-578.  x and X are written first; a negative index
\* reads z_table[index - 1] from the end, or raises IndexError after x, X (and y)
\* have been written.
prepare_for_next_romb(i, index) ==
    LET s == st[i]
        args == <<index>>
        xX == Update(s.shares, [x |-> Get(s.shares, "z"), X |-> Get(s.shares, "Z")])
        at_z == PyIndex(index - 1, Len(s.z_table[2]))
        at_Z == PyIndex(index - 1, Len(s.Z_table[2]))
    IN IF ~validate_initialized_shares(s, {"z", "Z"})
       THEN Reject(i, "prepare_for_next_romb", args, 400)
       ELSE IF index > Len(s.z_table[2]) \/ index > Len(s.Z_table[2])
       THEN Reject(i, "prepare_for_next_romb", args, 400)
       ELSE IF index = 0
       THEN Accept(i, "prepare_for_next_romb", args, 201,
                   [s EXCEPT !.shares = Update(xX, [y |-> I(0), Y |-> I(0)])], {})
       ELSE IF at_z = 0
       THEN Accept(i, "prepare_for_next_romb", args, 500, [s EXCEPT !.shares = xX], {})
       ELSE IF at_Z = 0
       THEN Accept(i, "prepare_for_next_romb", args, 500,
                   [s EXCEPT !.shares = Put(xX, "y", s.z_table[2][at_z])], {})
       ELSE Accept(i, "prepare_for_next_romb", args, 201,
                   [s EXCEPT !.shares = Update(xX,
                        [y |-> s.z_table[2][at_z], Y |-> s.Z_table[2][at_Z]])],
                   {})

\* routers/comparison.py:616-651
prepare_shares_for_res_xors(i, comparison_a_bit_index, random_number_bit_share_index) ==
    LET s == st[i]
        args == <<comparison_a_bit_index, random_number_bit_share_index>>
    IN IF \/ comparison_a_bit_index < 0
          \/ comparison_a_bit_index >= Len(s.comparison_a_bits[2])
       THEN Reject(i, "prepare_shares_for_res_xors", args, 400)
       ELSE IF \/ random_number_bit_share_index < 0
               \/ random_number_bit_share_index >= Len(s.random_number_bit_shares[2])
       THEN Reject(i, "prepare_shares_for_res_xors", args, 400)
       ELSE Accept(i, "prepare_shares_for_res_xors", args, 201,
                   [s EXCEPT !.shares = Update(s.shares,
                        [a_l |-> s.comparison_a_bits[2][comparison_a_bit_index + 1],
                         r_l |-> s.random_number_bit_shares[2][random_number_bit_share_index + 1]])],
                   {})

(***************************************************************************)
(* Administration: resets, bidders, the u-buffer and the peer side of the  *)
(* reconstruction.                                                         *)
(***************************************************************************)
\* routers/reset.py:115-156
reset_comparison(i) ==
    LET s == st[i]
    IN IF ~validate_initialized(s, {"n"})
       THEN Reject(i, "reset_comparison", <<>>, 400)
       ELSE Accept(i, "reset_comparison", <<>>, 201,
                   [s EXCEPT !.multiplicative_share = None, !.additive_share = None,
                             !.xor_share = None, !.A = None,
                             !.random_number_bit_shares = L(<<>>),
                             !.random_number_share = None, !.comparison_a = None,
                             !.z_table = L(<<>>), !.Z_table = L(<<>>),
                             !.comparison_a_bits = L(<<>>),
                             !.shares = Update(s.shares,
                                  [client_shares |-> None, shared_r |-> NoneList(s.n[2]),
                                   shared_q |-> NoneList(s.n[2]), shared_u |-> NoneList(s.n[2]),
                                   u |-> None, v |-> None])],
                   {})

\* routers/bidders.py:45-64.  state has no key "status", so the label test is
\* false; the list is read with state.get("client_shares", []), from the top level
\* of state.
get_bidders(i) ==
    LET s == st[i]
        client_shares == IF "client_shares" \in DOMAIN s THEN s["client_shares"] ELSE L(<<>>)
    IN IF ~validate_initialized(s, {"n"})
       THEN Answer(i, "get_bidders", <<>>, 400, None)
       ELSE IF ~IsList(client_shares)
       THEN Answer(i, "get_bidders", <<>>, 500, None)
       ELSE Answer(i, "get_bidders", <<>>, 200,
                   L([k \in DOMAIN client_shares[2] |-> client_shares[2][k][2]]))

\* routers/redistribution.py:498-549
receive_u_from_parties(i, trusted, party_id, shared_u) ==
    LET s == st[i]
        args == <<trusted, party_id, shared_u>>
    IN IF ~trusted
       THEN Reject(i, "receive_u_from_parties", args, 403)
       ELSE IF ~validate_initialized_shares(s, {"shared_u"})
       THEN Reject(i, "receive_u_from_parties", args, 400)
       ELSE IF ~IsList(s.shares["shared_u"])
       THEN Reject(i, "receive_u_from_parties", args, 500)
       ELSE IF party_id > Len(s.shares["shared_u"][2]) \/ party_id < 1
       THEN Reject(i, "receive_u_from_parties", args, 400)
       ELSE Accept(i, "receive_u_from_parties", args, 201,
                   [s EXCEPT !.shares = Put(s.shares, "shared_u",
                        L([s.shares["shared_u"][2] EXCEPT ![party_id] = I(int16(shared_u))]))],
                   {})

\* routers/redistribution.py:421-454.  u_k is the outcome of
\* secure_randint(1, state["p"]), whose end is inclusive.
redistribute_u(i, u_k) ==
    LET s == st[i]
    IN IF \/ ~validate_initialized(s, {"t", "n", "p", "id", "parties"})
          \/ ~validate_initialized_shares(s, {"shared_u"})
       THEN Reject(i, "redistribute_u", <<>>, 400)
       ELSE IF s.id[2] \in 1..s.n[2] /\ ~IsList(s.shares["shared_u"])
       THEN Reject(i, "redistribute_u", <<>>, 500)
       ELSE /\ u_k \in secure_randint(1, s.p[2])
            /\ \E u \in Shamir(s.t[2], s.n[2], u_k, s.p[2]) :
                 LET vals == [k \in 1..s.n[2] |-> u[k][2]]
                 IN Accept(i, "redistribute_u", <<>>, 201,
                           OwnSlot(s, "shared_u", vals), PeerMessages(s, "u", vals))

\* routers/redistribution.py:585-602
calculate_u(i) ==
    LET s == st[i]
    IN IF \/ ~validate_initialized(s, {"p"})
          \/ ~validate_initialized_shares_array(s, {"shared_u"})
       THEN Reject(i, "calculate_u", <<>>, 400)
       ELSE Accept(i, "calculate_u", <<>>, 201,
                   [s EXCEPT !.shares = Put(s.shares, "u",
                        I(SumSeq(Ints(s.shares["shared_u"])) % s.p[2]))],
                   {})

\* routers/reconstruction.py:88-124, as a request served by node i
return_share_to_reconstruct(i, trusted, share_to_reconstruct) ==
    LET answer == get_share_to_reconstruct(st[i], trusted, share_to_reconstruct)
    IN Answer(i, "get_share_to_reconstruct", <<trusted, share_to_reconstruct>>, answer[1],
              IF answer[1] = 200 THEN answer[2].share_to_reconstruct ELSE None)

(***************************************************************************)
(* Specification Spec: one node of the router generation, every request    *)
(* of its round engine offered at every moment.  The node observed is Me;  *)
(* its peers are the environment, which may deliver any q or r message     *)
(* with any party_id, from a trusted or an untrusted address.              *)
(***************************************************************************)
Me == SERVERS[2]

\* the id an administrator posts to the node
IdInputs == {Me}

\* the primes of the runs, as sent by the orchestrator, and a rejected modulus
PInputs == {hex(0), hex(5)}

ShareNames == {"a"}

ShareValues == {hex(2)}

PartyIds == 0..(Len(SERVERS) + 1)

PeerValues == {hex(1)}

(***************************************************************************)
(* The label generation: src/api/__init__.py with the finalize handler of  *)
(* src/api/routers/multiplication.py.  leg.s is its state dictionary and   *)
(* leg.pend the redistribute handlers that are suspended in their          *)
(* asyncio.gather.  Its api.config and its helper                          *)
(* validate_initialized_array are not among the sources.                   *)
(***************************************************************************)
\* api.config of the label generation: nothing initialised, label NOT_INITIALIZED
L_BootState ==
    [status |-> "NOT_INITIALIZED",
     t |-> None, n |-> None, id |-> None, p |-> None, parties |-> None,
     shared_q |-> None, shared_r |-> None, client_shares |-> None,
     calculated_share |-> None, xor_multiplication |-> None,
     zZ |-> None, temporary_zZ |-> L(<<I(0), I(0)>>)]

\* validate_initialized_array of the label generation: every key is a list without None
L_validate_initialized_array(s, required_keys) ==
    \A key \in required_keys :
        /\ IsList(s[key])
        /\ \A k \in DOMAIN s[key][2] : ~IsNone(s[key][2][k])

L_Reject(op, args, code) ==
    /\ leg' = leg
    /\ out' = {}
    /\ Reply(0, op, args, code)

L_Accept(op, args, code, s2, msgs) ==
    /\ leg' = [leg EXCEPT !.s = s2]
    /\ out' = msgs
    /\ Reply(0, op, args, code)

\* a redistribute handler reaches its asyncio.gather: no answer yet (code 0)
L_Suspend(op, args, s2, msgs) ==
    /\ leg' = [s |-> s2, pend |-> leg.pend \cup {op}]
    /\ out' = msgs
    /\ Reply(0, op, args, 0)

\* __init__.py:179-226
L_set_initial_values(t, n, id, p_hex, parties) ==
    LET s == leg.s
        args == <<t, n, id, p_hex, parties>>
    IN IF ~validate_not_initialized(s, {"t", "n", "id", "p", "shared_q", "shared_r",
                                        "parties", "client_shares"})
       THEN L_Reject("set_initial_values", args, 400)
       ELSE IF t <= 0 \/ n <= 0 \/ 2 * t + 1 # n
       THEN L_Reject("set_initial_values", args, 400)
       ELSE IF int16(p_hex) <= 0
       THEN L_Reject("set_initial_values", args, 400)
       ELSE IF Len(parties) # n
       THEN L_Reject("set_initial_values", args, 400)
       ELSE L_Accept("set_initial_values", args, 200,
                     [s EXCEPT !.t = I(t), !.n = I(n), !.id = I(id), !.p = I(int16(p_hex)),
                               !.shared_q = NoneList(n), !.shared_r = NoneList(n),
                               !.parties = L(parties), !.client_shares = L(<<>>),
                               !.status = "INITIALIZED"],
                     {})

\* a_bin of __init__.py:425-428 and 621-624: binary(opened_a) padded with 0 to l + k + 2
L_a_bin(opened_a, l, k) ==
    LET b == binary(int16(opened_a))
    IN [j \in 1..(IF Len(b) < l + k + 2 THEN l + k + 2 ELSE Len(b)) |->
           IF j <= Len(b) THEN b[j] ELSE 0]

\* __init__.py:415-439
L_calculate_z(opened_a, l, k) ==
    LET s == leg.s
        a_bin == L_a_bin(opened_a, l, k)
        zZ == [j \in 1..(l + 1) |-> IF j <= l THEN <<a_bin[l + 1 - j], a_bin[l + 1 - j]>>
                                    ELSE <<0, 0>>]
    IN L_Accept("calculate_z", <<opened_a, l, k>>, 201,
                [s EXCEPT !.zZ = L(zZ), !.temporary_zZ = L(<<I(0), I(0)>>)], {})

\* the peer messages and the own slot of __init__.py:479-487 and 643-651
L_PeerMessages(s, kind, vals) ==
    {[kind |-> kind, to |-> s.parties[2][k], party_id |-> s.id[2], val |-> hex(vals[k])] :
        k \in {k \in 1..s.n[2] : k # s.id[2]}}

L_OwnSlot(s, key, vals) ==
    IF s.id[2] \in 1..s.n[2]
    THEN [s EXCEPT ![key] = L([s[key][2] EXCEPT ![s.id[2]] = I(vals[s.id[2]])])]
    ELSE s

\* __init__.py:465-487, up to the gather
L_redistribute_q ==
    LET s == leg.s
    IN IF s.status # "INITIALIZED"
       THEN L_Reject("redistribute_q", <<>>, 400)
       ELSE IF ~validate_initialized(s, {"t", "n", "p", "id", "parties", "shared_q"})
       THEN L_Reject("redistribute_q", <<>>, 400)
       ELSE \E q \in Shamir(2 * s.t[2], s.n[2], 0, s.p[2]) :
              LET vals == [k \in 1..s.n[2] |-> q[k][2]]
              IN L_Suspend("redistribute_q", <<>>, L_OwnSlot(s, "shared_q", vals),
                           L_PeerMessages(s, "q", vals))

\* __init__.py:489-492, after the gather
L_redistribute_q_done ==
    /\ "redistribute_q" \in leg.pend
    /\ leg' = [s |-> [leg.s EXCEPT !.status = "Q_CALC_SHARED"],
               pend |-> leg.pend \ {"redistribute_q"}]
    /\ out' = {}
    /\ Reply(0, "redistribute_q", <<>>, 201)

\* __init__.py:514-537 (key "shared_q") and 678-701 (key "shared_r")
L_set_received(op, key, party_id, value_hex) ==
    LET s == leg.s
        args == <<party_id, value_hex>>
    IN IF ~validate_initialized(s, {key})
       THEN L_Reject(op, args, 400)
       ELSE IF party_id > Len(s[key][2]) \/ party_id < 1
       THEN L_Reject(op, args, 400)
       ELSE IF ~IsNone(s[key][2][party_id])
       THEN L_Reject(op, args, 400)
       ELSE L_Accept(op, args, 201,
                     [s EXCEPT ![key] = L([s[key][2] EXCEPT ![party_id] = I(int16(value_hex))])],
                     {})

\* __init__.py:514-537
L_set_received_q(party_id, shared_q) == L_set_received("set_received_q", "shared_q", party_id, shared_q)

\* __init__.py:678-701
L_set_received_r(party_id, shared_r) == L_set_received("set_received_r", "shared_r", party_id, shared_r)

\* state["zZ"][a][b] of __init__.py:590-600: None when the lookup raises
L_zZ(s, ab) ==
    IF ~IsList(s.zZ) THEN None
    ELSE LET row == PyIndex(ab[1], Len(s.zZ[2]))
         IN IF row = 0 THEN None
            ELSE LET col == PyIndex(ab[2], Len(s.zZ[2][row]))
                 IN IF col = 0 THEN None ELSE I(s.zZ[2][row][col])

\* state["temporary_zZ"][a]
L_temporary_zZ(s, a) ==
    IF ~IsList(s.temporary_zZ) THEN None
    ELSE LET k == PyIndex(a, Len(s.temporary_zZ[2]))
         IN IF k = 0 THEN None ELSE s.temporary_zZ[2][k]

\* __init__.py:565-651, up to the gather
L_redistribute_r(values) ==
    LET s == leg.s
        first == IF values.final THEN I(L_a_bin(values.opened_a, values.l, values.k)[values.l + 1])
                 ELSE L_zZ(s, values.first)
        second == IF values.final THEN L_zZ(s, <<0, 1>>)
                  ELSE IF values.take THEN L_temporary_zZ(s, values.second[1])
                  ELSE L_zZ(s, values.second)
    IN IF s.status # "Q_CALC_SHARED"
       THEN L_Reject("redistribute_r", values, 400)
       ELSE IF \/ ~validate_initialized(s, {"client_shares", "n", "p", "t", "id",
                                            "shared_r", "parties"})
               \/ ~L_validate_initialized_array(s, {"shared_q"})
       THEN L_Reject("redistribute_r", values, 400)
       ELSE IF ~values.final /\ (IsNone(first) \/ IsNone(second))
       THEN L_Reject("redistribute_r", values, 500)
       ELSE LET A == MatrixA(s.t[2], s.n[2], s.p[2])
            IN IF IsNone(A)
               THEN L_Reject("redistribute_r", values, 400)
               ELSE IF (values.final /\ IsNone(second)) \/ PyIndex(s.id[2] - 1, s.n[2]) = 0
               THEN L_Reject("redistribute_r", values, 500)
               ELSE LET multiplied_shares ==
                            (first[2] * second[2] + SumSeq(Ints(s.shared_q))) % s.p[2]
                        row == A[2][PyIndex(s.id[2] - 1, s.n[2])]
                        r == [k \in 1..s.n[2] |-> (multiplied_shares * row[k]) % s.p[2]]
                    IN L_Suspend("redistribute_r", values, L_OwnSlot(s, "shared_r", r),
                                 L_PeerMessages(s, "r", r))

\* __init__.py:653-656, after the gather
L_redistribute_r_done ==
    /\ "redistribute_r" \in leg.pend
    /\ leg' = [s |-> [leg.s EXCEPT !.status = "R_CALC_SHARED"],
               pend |-> leg.pend \ {"redistribute_r"}]
    /\ out' = {}
    /\ Reply(0, "redistribute_r", <<>>, 201)

\* set_temporary_zZ of __init__.py:126-130: None when it raises
L_set_temporary_zZ(s, index, value) ==
    IF ~IsInt(index) \/ index[2] \notin {0, 1} \/ ~IsList(s.temporary_zZ)
    THEN None
    ELSE L([s.temporary_zZ[2] EXCEPT ![index[2] + 1] = I(value)])

\* the finalize without the check of the label
L_calculate_multiplicative_share_any_label(set_in_temporary_zZ_index, calculate_for_xor) ==
    LET s == leg.s
        args == <<set_in_temporary_zZ_index, calculate_for_xor>>
    IN IF \/ ~validate_initialized(s, {"n", "p"})
          \/ ~L_validate_initialized_array(s, {"shared_r"})
       THEN L_Reject("calculate_multiplicative_share", args, 400)
       ELSE IF ~calculate_for_xor /\ IsNone(set_in_temporary_zZ_index)
       THEN L_Reject("calculate_multiplicative_share", args, 400)
       ELSE LET calculated_value ==
                    SumSeq([i \in 1..s.n[2] |-> s.shared_r[2][i][2]]) % s.p[2]
            IN IF calculate_for_xor
               THEN L_Accept("calculate_multiplicative_share", args, 201,
                             [s EXCEPT !.xor_multiplication = I(calculated_value)], {})
               ELSE IF IsNone(L_set_temporary_zZ(s, set_in_temporary_zZ_index, calculated_value))
               THEN L_Reject("calculate_multiplicative_share", args, 500)
               ELSE L_Accept("calculate_multiplicative_share", args, 201,
                             [s EXCEPT !.temporary_zZ =
                                  L_set_temporary_zZ(s, set_in_temporary_zZ_index,
                                                     calculated_value)],
                             {})

\* routers/multiplication.py:68-111 (and __init__.py:731-757)
L_calculate_multiplicative_share(set_in_temporary_zZ_index, calculate_for_xor) ==
    LET s == leg.s
        args == <<set_in_temporary_zZ_index, calculate_for_xor>>
    IN IF s.status # "R_CALC_SHARED"
       THEN L_Reject("calculate_multiplicative_share", args, 400)
       ELSE IF \/ ~validate_initialized(s, {"n", "p"})
               \/ ~L_validate_initialized_array(s, {"shared_r"})
       THEN L_Reject("calculate_multiplicative_share", args, 400)
       ELSE IF ~calculate_for_xor /\ IsNone(set_in_temporary_zZ_index)
       THEN L_Reject("calculate_multiplicative_share", args, 400)
       ELSE LET calculated_value ==
                    SumSeq([i \in 1..s.n[2] |-> s.shared_r[2][i][2]]) % s.p[2]
            IN IF calculate_for_xor
               THEN L_Accept("calculate_multiplicative_share", args, 201,
                             [s EXCEPT !.xor_multiplication = I(calculated_value)], {})
               ELSE IF IsNone(L_set_temporary_zZ(s, set_in_temporary_zZ_index, calculated_value))
               THEN L_Reject("calculate_multiplicative_share", args, 500)
               ELSE L_Accept("calculate_multiplicative_share", args, 201,
                             [s EXCEPT !.temporary_zZ =
                                  L_set_temporary_zZ(s, set_in_temporary_zZ_index,
                                                     calculated_value)],
                             {})

\* reset_state of src/api/utils.py:61-63
reset_state(s, keys_to_reset) == Update(s, [key \in keys_to_reset |-> None])

\* __init__.py:971-987
L_reset_calculation ==
    LET s == leg.s
    IN IF s.status = "NOT_INITIALIZED"
       THEN L_Reject("reset_calculation", <<>>, 400)
       ELSE IF ~validate_initialized(s, {"n"})
       THEN L_Reject("reset_calculation", <<>>, 400)
       ELSE L_Accept("reset_calculation", <<>>, 201,
                     [reset_state(s, {"calculated_share", "xor_multiplication"})
                         EXCEPT !.shared_q = NoneList(s.n[2]), !.shared_r = NoneList(s.n[2]),
                                !.status = "INITIALIZED"],
                     {})

\* __init__.py:1043-1066
L_factory_reset ==
    L_Accept("factory_reset", <<>>, 201,
             [reset_state(leg.s, {"t", "n", "id", "p", "parties", "shared_q", "shared_r",
                                  "client_shares", "calculated_share", "xor_multiplication",
                                  "temporary-zZ", "zZ"})
                 EXCEPT !.status = "NOT_INITIALIZED"],
             {})

\* the orchestrator before a run
Idle == [pc |-> 0, prim |-> "idle", x |-> <<>>, y |-> <<>>, p |-> hex(0), todo |-> {}]

Init ==
    /\ st = [i \in Procs |-> BootState]
    /\ net = {}
    /\ out = {}
    /\ resp = [proc |-> 0, op |-> "boot", args |-> <<>>, code |-> 0, rep |-> FALSE,
               body |-> None]
    /\ orch = Idle
    /\ leg = [s |-> L_BootState, pend |-> {}]

Alone == UNCHANGED <<net, orch, leg>>

SetInitialValues == \E id \in IdInputs, p_hex \in PInputs : set_initial_values(Me, id, p_hex) /\ Alone

CalculateA == calculate_A(Me) /\ Alone

SetShares == \E name \in ShareNames, v \in ShareValues : set_shares(Me, name, v) /\ Alone

RedistributeQ == redistribute_q(Me) /\ Alone

ReceiveQ ==
    \E trusted \in BOOLEAN, party_id \in PartyIds, v \in PeerValues :
        set_received_q(Me, trusted, party_id, v) /\ Alone

RedistributeR == \E n1 \in ShareNames, n2 \in ShareNames : redistribute_r(Me, n1, n2) /\ Alone

ReceiveR ==
    \E trusted \in BOOLEAN, party_id \in PartyIds, v \in PeerValues :
        set_received_r(Me, trusted, party_id, v) /\ Alone

CalculateMultiplicativeShare == calculate_multiplicative_share(Me) /\ Alone

ResetCalculation == reset_calculation(Me) /\ Alone

FactoryReset == factory_reset(Me) /\ Alone

Next ==
    \/ SetInitialValues
    \/ CalculateA
    \/ SetShares
    \/ RedistributeQ
    \/ ReceiveQ
    \/ RedistributeR
    \/ ReceiveR
    \/ CalculateMultiplicativeShare
    \/ ResetCalculation
    \/ FactoryReset

Spec == Init /\ [][Next]_vars

(***************************************************************************)
(* Specification SpecInbound: the inbound side of the round engine of one  *)
(* node.  Peers deliver q and r messages with two different payloads, so   *)
(* that a sender can repeat itself with another value.                     *)
(***************************************************************************)
InboundValues == {hex(1), hex(3)}

DeliverQ ==
    \E trusted \in BOOLEAN, party_id \in PartyIds, v \in InboundValues :
        set_received_q(Me, trusted, party_id, v) /\ Alone

DeliverR ==
    \E trusted \in BOOLEAN, party_id \in PartyIds, v \in InboundValues :
        set_received_r(Me, trusted, party_id, v) /\ Alone

NextInbound ==
    \/ SetInitialValues
    \/ DeliverQ
    \/ DeliverR
    \/ ResetCalculation
    \/ FactoryReset

SpecInbound == Init /\ [][NextInbound]_vars

(***************************************************************************)
(* Specification SpecRun: the n nodes driven by the orchestrator of         *)
(* src/tests/__init__.py through one primitive (add_shares,                 *)
(* multiply_shares or xor_shares) on the shares "first" and "second", and   *)
(* then through reconstruct-secret of the result.  The orchestrator posts   *)
(* each phase to every node at once (asyncio.gather) and waits for all      *)
(* answers, peer messages included, before the next phase.                  *)
(***************************************************************************)
\* tests/__init__.py:916-1000, the preparation of the nodes
Setup == <<"initial_values", "calculate_A", "set_first", "set_second">>

\* tests/__init__.py:107-332, the requests of each primitive, in order
Program(prim) ==
    Setup \o
    (CASE prim = "add" ->
            <<"calculate_additive_share", "set_additive_share">>
       [] prim = "mul" ->
            <<"redistribute_q", "redistribute_r", "calculate_multiplicative_share",
              "set_multiplicative_share">>
       [] prim = "xor" ->
            <<"calculate_additive_share", "redistribute_q", "redistribute_r",
              "calculate_multiplicative_share", "calculate_xor_share", "set_xor_share">>
       [] prim = "round" ->
            <<"reset_calculation", "redistribute_q", "redistribute_r",
              "calculate_multiplicative_share">>)
    \o <<"reconstruct_secret">>

Primitives == {"add", "mul", "xor"}

\* the secrets of the runs: pairs of bits and a pair whose sum and product exceed p
RunSecrets == {<<0, 1>>, <<1, 1>>, <<3, 4>>}

RunPrimes == {5}

\* the polynomials of degree < t with constant term k0, as coefficient lists
Polynomials(t, k0, p) == {c \in [1..t -> 0..(p - 1)] : c[1] = k0}

RunT == (Len(SERVERS) - 1) \div 2

\* the request of the current phase to node i
Serve(i, phase) ==
    LET p == int16(orch.p)
    IN CASE phase = "initial_values" -> set_initial_values(i, i, orch.p)
         [] phase = "calculate_A" -> calculate_A(i)
         [] phase = "set_first" -> set_shares(i, "first", hex(f(i, orch.x, p, RunT)))
         [] phase = "set_second" -> set_shares(i, "second", hex(f(i, orch.y, p, RunT)))
         [] phase = "calculate_additive_share" -> calculate_additive_share(i, "first", "second")
         [] phase = "set_additive_share" -> set_share_from_additive_share(i, "res")
         [] phase = "redistribute_q" -> redistribute_q(i)
         [] phase = "redistribute_r" -> redistribute_r(i, "first", "second")
         [] phase = "calculate_multiplicative_share" -> calculate_multiplicative_share(i)
         [] phase = "set_multiplicative_share" -> set_share_from_multiplicative_share(i, "res")
         [] phase = "calculate_xor_share" -> calculate_xor_share(i)
         [] phase = "set_xor_share" -> set_share_from_xor_share(i, "res")
         [] phase = "reset_calculation" -> reset_calculation(i)
         [] phase = "reconstruct_secret" -> return_secret(i, "res")

\* tests/__init__.py:1002-1030: a run starts with its prime and the clients' sharings
Start ==
    /\ orch.pc = 0
    /\ \E prim \in Primitives, xy \in RunSecrets, p \in RunPrimes :
         \E x \in Polynomials(RunT, xy[1], p), y \in Polynomials(RunT, xy[2], p) :
            orch' = [pc |-> 1, prim |-> prim, x |-> x, y |-> y, p |-> hex(p), todo |-> Procs]
    /\ UNCHANGED <<st, net, out, resp, leg>>

\* one of the concurrent requests of the current phase
Request ==
    /\ orch.pc > 0
    /\ orch.pc <= Len(Program(orch.prim))
    /\ \E i \in orch.todo :
         /\ Serve(i, Program(orch.prim)[orch.pc])
         /\ net' = net \cup out'
         /\ orch' = [orch EXCEPT !.todo = @ \ {i}]
    /\ UNCHANGED leg

\* a peer message reaches its addressee
Deliver ==
    /\ \E msg \in net :
         /\ IF msg.kind = "q"
            THEN set_received_q(msg.to, TRUE, msg.party_id, msg.val)
            ELSE set_received_r(msg.to, TRUE, msg.party_id, msg.val)
         /\ net' = net \ {msg}
    /\ UNCHANGED <<orch, leg>>

\* await asyncio.gather(*tasks) returns: every request of the phase is answered,
\* which for a redistribution is after its peers have answered
Barrier ==
    /\ orch.pc > 0
    /\ orch.pc < Len(Program(orch.prim))
    /\ orch.todo = {}
    /\ net = {}
    /\ orch' = [orch EXCEPT !.pc = @ + 1, !.todo = Procs]
    /\ UNCHANGED <<st, net, out, resp, leg>>

NextRun ==
    \/ Start
    \/ Request
    \/ Deliver
    \/ Barrier

SpecRun == Init /\ [][NextRun]_vars

(***************************************************************************)
(* Specification SpecCmp: the n nodes driven by the orchestrator of         *)
(* src/tests/__init__.py through one comparison of two client values.  The  *)
(* generation of each random bit (share_random_bit) is represented by its   *)
(* result, a sharing of the bit in shares["temporary_random_bit"].  As in   *)
(* the orchestrator, a request that fails is reported and the run goes on.  *)
(***************************************************************************)
RECURSIVE Concat(_)
Concat(ss) == IF ss = <<>> THEN <<>> ELSE Head(ss) \o Concat(Tail(ss))

\* tests/__init__.py:151-224
multiply_shares(first_share_name, second_share_name, result_share_name) ==
    << <<"redistribute_q">>,
       <<"redistribute_r", first_share_name, second_share_name>>,
       <<"calculate_multiplicative_share">>,
       <<"set_multiplicative_share", result_share_name>> >>

\* tests/__init__.py:227-332
xor_shares(first_share_name, second_share_name, result_share_name) ==
    << <<"calculate_additive_share", first_share_name, second_share_name>>,
       <<"redistribute_q">>,
       <<"redistribute_r", first_share_name, second_share_name>>,
       <<"calculate_multiplicative_share">>,
       <<"calculate_xor_share">>,
       <<"set_xor_share", result_share_name>> >>

\* tests/__init__.py:549-640
calculate_z_table_XOR(index) ==
    << <<"calculate_additive_share_of_z_table", index>>,
       <<"redistribute_q">>,
       <<"calculate_r_of_z_table", index>>,
       <<"calculate_multiplicative_share">>,
       <<"calculate_xor_share">>,
       <<"set_z_table_to_xor_share", index>> >>

\* tests/__init__.py:643-660, for i in range(l - 1, -1, -1)
calculate_z_tables(l) ==
    Concat([j \in 1..l |-> calculate_z_table_XOR(l - j) \o << <<"reset_calculation">> >>])

\* tests/__init__.py:702-795, one round of the sweep
romb(index) ==
    << <<"prepare_for_next_romb", index>> >>
    \o multiply_shares("x", "y", "z") \o << <<"reset_calculation">> >>
    \o xor_shares("X", "Y", "Z") \o << <<"reset_calculation">> >>
    \o multiply_shares("x", "Z", "Z") \o << <<"reset_calculation">> >>
    \o xor_shares("Z", "X", "Z") \o << <<"reset_calculation">> >>

\* tests/__init__.py:663-846
comparison(l, k) ==
    << <<"prepare_z_tables">> >>
    \o Concat([j \in 1..l |-> calculate_z_tables(l)])
    \o << <<"initialize_z_and_Z", l>> >>
    \o Concat([j \in 1..l |-> romb(l - j)])
    \o << <<"prepare_shares_for_res_xors", l, l>> >>
    \o xor_shares("a_l", "r_l", "res") \o << <<"reset_calculation">> >>
    \o xor_shares("res", "Z", "res") \o << <<"reset_calculation">> >>

\* tests/__init__.py:521-546, the end of share_random_bit(bit_index)
share_random_bit(bit_index) ==
    << <<"temporary_random_bit", bit_index>>,
       <<"set_random_number_bit_share", bit_index>> >>

\* tests/__init__.py:1002-1088, the body of the loop of main: one comparison
comparison_round(l, k) ==
    Concat([j \in 1..(l + k + 1) |-> share_random_bit(j - 1)])
    \o << <<"calculate_share_of_random_number">>, <<"calculate_a_comparison">>,
          <<"reconstruct_secret", "comparison_a">> >>
    \o comparison(l, k)
    \o << <<"reconstruct_secret", "res">> >>

\* tests/__init__.py:849-1082: the set-up and the first comparison of main
main(l, k) ==
    << <<"initial_values">>, <<"set_client_shares", 1>>, <<"set_client_shares", 2>>,
       <<"calculate_A">> >>
    \o comparison_round(l, k)

\* tests/__init__.py:849-1103: main up to the second turn of its loop, with
\* reset-comparison between the comparisons
main_repeat(l, k) ==
    main(l, k) \o << <<"reset_comparison">> >> \o comparison_round(l, k)

\* the uids of the two clients
bidders == <<11, 12>>

\* the parameters (l, k) of the runs
CmpParams == {<<1, 1>>}

\* the primes of the runs: p > 2^(l+k+1) + 2^(l+1), so that a does not wrap
CmpPrimes == {13}

\* the masks of the runs, as bits r_0..r_{l+k}
CmpMasks == {<<0, 0, 0>>, <<1, 1, 0>>}

\* the slopes of the q-polynomials that the nodes draw in the runs
CmpDraws == {1, 5}

\* the requests of the run, in order
CmpProgram ==
    << <<"factory_reset">> >>
    \o (IF orch.prim = "repeat" THEN main_repeat(orch.l, orch.k) ELSE main(orch.l, orch.k))

\* the request of phase ph to node i
CmpServe(i, ph) ==
    LET p == int16(orch.p)
        op == ph[1]
    IN CASE op = "factory_reset" -> factory_reset(i)
         [] op = "initial_values" -> set_initial_values(i, i, orch.p)
         [] op = "set_client_shares" ->
              set_client_shares(i, bidders[ph[2]],
                                hex(f(i, IF ph[2] = 1 THEN orch.x ELSE orch.y, p, RunT)))
         [] op = "calculate_A" -> calculate_A(i)
         [] op = "temporary_random_bit" ->
              set_shares(i, "temporary_random_bit", hex(f(i, orch.r[ph[2] + 1], p, RunT)))
         [] op = "set_random_number_bit_share" ->
              set_random_number_bit_share_to_temporary_random_bit_share(i, ph[2])
         [] op = "calculate_share_of_random_number" -> calculate_share_of_random_number(i)
         [] op = "calculate_a_comparison" ->
              calculate_a_comparison(i, bidders[1], bidders[2], orch.l, orch.k)
         [] op = "reconstruct_secret" -> return_secret(i, ph[2])
         [] op = "prepare_z_tables" -> prepare_z_tables(i, orch.opened_a, orch.l, orch.k)
         [] op = "calculate_additive_share_of_z_table" ->
              calculate_additive_share_of_z_table_arguments(i, ph[2])
         [] op = "redistribute_q" -> redistribute_q(i)
         [] op = "calculate_r_of_z_table" -> calculate_r_of_z_table(i, ph[2])
         [] op = "calculate_multiplicative_share" -> calculate_multiplicative_share(i)
         [] op = "calculate_xor_share" -> calculate_xor_share(i)
         [] op = "set_z_table_to_xor_share" -> set_z_table_to_xor_share(i, ph[2])
         [] op = "reset_calculation" -> reset_calculation(i)
         [] op = "reset_comparison" -> reset_comparison(i)
         [] op = "initialize_z_and_Z" -> initialize_z_and_Z(i, ph[2])
         [] op = "prepare_for_next_romb" -> prepare_for_next_romb(i, ph[2])
         [] op = "redistribute_r" -> redistribute_r(i, ph[2], ph[3])
         [] op = "set_multiplicative_share" -> set_share_from_multiplicative_share(i, ph[2])
         [] op = "calculate_additive_share" -> calculate_additive_share(i, ph[2], ph[3])
         [] op = "set_xor_share" -> set_share_from_xor_share(i, ph[2])
         [] op = "prepare_shares_for_res_xors" -> prepare_shares_for_res_xors(i, ph[2], ph[3])

\* the q-polynomial drawn by node i in this step is one of the runs' draws
BoundedDraw(i) ==
    (resp'.op = "redistribute_q" /\ resp'.code = 201) =>
        \E c \in CmpDraws : st'[i].shares["shared_q"][2][i] = I((c * i) % int16(orch.p))

\* tests/__init__.py:900-909: a run starts with its prime, the clients' sharings of
\* x and y in [0, 2^l) and the sharings of the mask bits
CmpStart ==
    /\ orch.pc = 0
    /\ \E lk \in CmpParams, p \in CmpPrimes, r \in CmpMasks :
         /\ Len(r) = lk[1] + lk[2] + 1
         /\ \E x \in 0..(Pow(2, lk[1]) - 1), y \in 0..(Pow(2, lk[1]) - 1) :
              \E xs \in Polynomials(RunT, x, p), ys \in Polynomials(RunT, y, p),
                 rs \in [DOMAIN r -> UNION {Polynomials(RunT, b, p) : b \in {0, 1}}] :
                 /\ \A j \in DOMAIN r : rs[j][1] = r[j]
                 /\ orch' = [pc |-> 1, prim |-> "cmp", x |-> xs, y |-> ys, p |-> hex(p),
                             todo |-> Procs, r |-> rs, l |-> lk[1], k |-> lk[2],
                             opened_a |-> hex(0), alive |-> TRUE]
    /\ UNCHANGED <<st, net, out, resp, leg>>

\* one of the concurrent requests of the current phase.  The orchestrator keeps
\* the opened a of an answered reconstruct-secret (tests/__init__.py:1046-1060)
\* and, in the single comparison of SpecCmp, stops at a reconstruct-secret that
\* returns no secret; in the repeated run of SpecRepeat it goes on to the next request.
CmpRequest ==
    /\ orch.pc > 0
    /\ orch.prim \in {"cmp", "repeat"}
    /\ orch.pc <= Len(CmpProgram)
    /\ \E i \in orch.todo :
         LET ph == CmpProgram[orch.pc]
         IN /\ CmpServe(i, ph)
            /\ BoundedDraw(i)
            /\ net' = net \cup out'
            /\ orch' = [orch EXCEPT
                          !.todo = @ \ {i},
                          !.opened_a = IF ph = <<"reconstruct_secret", "comparison_a">>
                                          /\ resp'.code = 200
                                       THEN resp'.body ELSE @,
                          !.alive = @ /\ ((orch.prim = "cmp" /\ ph[1] = "reconstruct_secret")
                                        => resp'.code = 200)]
    /\ UNCHANGED leg

\* await asyncio.gather(*tasks) returns
CmpBarrier ==
    /\ orch.pc > 0
    /\ orch.prim \in {"cmp", "repeat"}
    /\ orch.pc < Len(CmpProgram)
    /\ orch.alive
    /\ orch.todo = {}
    /\ net = {}
    /\ orch' = [orch EXCEPT !.pc = @ + 1, !.todo = Procs]
    /\ UNCHANGED <<st, net, out, resp, leg>>

NextCmp ==
    \/ CmpStart
    \/ CmpRequest
    \/ Deliver
    \/ CmpBarrier

SpecCmp == Init /\ [][NextCmp]_vars

(***************************************************************************)
(* Specification SpecRepeat: the loop of main taken twice.  The nodes are  *)
(* set up once; the comparison is run, every node serves reset-comparison, *)
(* and the comparison is run again on the stored client shares.  The       *)
(* orchestrator of this run does not stop at a request that fails.         *)
(***************************************************************************)

\* the masks of the repeated runs, as bits r_0..r_{l+k}
RepeatMasks == {<<1, 1, 0>>}

\* tests/__init__.py:900-909: a repeated run starts like a single one
RepeatStart ==
    /\ orch.pc = 0
    /\ \E lk \in CmpParams, p \in CmpPrimes, r \in RepeatMasks :
         /\ Len(r) = lk[1] + lk[2] + 1
         /\ \E x \in 0..(Pow(2, lk[1]) - 1), y \in 0..(Pow(2, lk[1]) - 1) :
              \E xs \in Polynomials(RunT, x, p), ys \in Polynomials(RunT, y, p),
                 rs \in [DOMAIN r -> UNION {Polynomials(RunT, b, p) : b \in {0, 1}}] :
                 /\ \A j \in DOMAIN r : rs[j][1] = r[j]
                 /\ orch' = [pc |-> 1, prim |-> "repeat", x |-> xs, y |-> ys, p |-> hex(p),
                             todo |-> Procs, r |-> rs, l |-> lk[1], k |-> lk[2],
                             opened_a |-> hex(0), alive |-> TRUE]
    /\ UNCHANGED <<st, net, out, resp, leg>>

NextRepeat ==
    \/ RepeatStart
    \/ CmpRequest
    \/ Deliver
    \/ CmpBarrier

SpecRepeat == Init /\ [][NextRepeat]_vars

(***************************************************************************)
(* Specification SpecAdmin: the life cycle of one node.  An administrator  *)
(* initialises it with any id, resets it, names shares; clients post their *)
(* shares; peers send u-shares and ask for shares to reconstruct.          *)
(***************************************************************************)
\* the ids an administrator posts: below, inside and above [1..n]
AdminIds == {0, Me, Len(SERVERS) + 1}

AdminPrimes == {hex(5)}

\* the clients and the shares they post
ClientIds == {bidders[1], bidders[2]}

ClientShareValues == {hex(1), hex(4)}

\* shares named by the orchestrator (set-shares, set-xor-share/res)
NamedShares == {"res", "u"}

\* the senders of u-shares: a peer and an id above n
USenders == {1, Len(SERVERS) + 1}

AdminSetInitialValues ==
    \E id \in AdminIds, p_hex \in AdminPrimes : set_initial_values(Me, id, p_hex) /\ Alone

ResetComparison == reset_comparison(Me) /\ Alone

PutClientShares ==
    \E uid \in ClientIds, share \in ClientShareValues : set_client_shares(Me, uid, share) /\ Alone

GetBidders == get_bidders(Me) /\ Alone

NameShare == \E name \in NamedShares : set_shares(Me, name, hex(2)) /\ Alone

ReceiveU ==
    \E trusted \in BOOLEAN, party_id \in USenders :
        receive_u_from_parties(Me, trusted, party_id, hex(3)) /\ Alone

ReturnShare ==
    \E name \in NamedShares : return_share_to_reconstruct(Me, TRUE, name) /\ Alone

NextAdmin ==
    \/ AdminSetInitialValues
    \/ CalculateA
    \/ PutClientShares
    \/ GetBidders
    \/ NameShare
    \/ ReceiveU
    \/ ReturnShare
    \/ ResetCalculation
    \/ ResetComparison
    \/ FactoryReset

SpecAdmin == Init /\ [][NextAdmin]_vars

(***************************************************************************)
(* Specification SpecDeploy: one node under any deployment.  config.py     *)
(* reads SERVERS and WIREGUARD_IPS from the environment when the process   *)
(* starts; the administrator then initialises and resets the node.         *)
(***************************************************************************)

\* config.py:14: the SERVERS lists of the deployments, of 0 to 5 peers
DeployServers == {[j \in 1..len |-> j] : len \in 0..5}

\* config.py:16-23: no wireguard configuration, one address per server, or a
\* list of another length
DeployWireguard(servers) ==
    {None, L([j \in 1..Len(servers) |-> 100 + j]), L([j \in 1..(Len(servers) + 1) |-> 100 + j])}

\* config.py:14-23: the process starts and reads its configuration
DeployStart ==
    /\ orch.pc = 0
    /\ \E servers \in DeployServers :
         \E wireguard_ips \in DeployWireguard(servers) :
             orch' = [pc |-> 1, prim |-> "deploy", servers |-> servers,
                      wireguard_ips |-> wireguard_ips]
    /\ UNCHANGED <<st, net, out, resp, leg>>

\* routers/initialization.py:71-131 under the deployment of the run
DeploySetInitialValues ==
    /\ orch.prim = "deploy"
    /\ \E id \in AdminIds, p_hex \in AdminPrimes :
         LET done == initial_values(st[Me], orch.servers, orch.wireguard_ips, id, p_hex)
         IN IF done.code = 201
            THEN Accept(Me, "set_initial_values", <<id, p_hex>>, 201, done.state, {})
            ELSE Reject(Me, "set_initial_values", <<id, p_hex>>, done.code)
    /\ Alone

DeployResetCalculation == orch.prim = "deploy" /\ reset_calculation(Me) /\ Alone

DeployResetComparison == orch.prim = "deploy" /\ reset_comparison(Me) /\ Alone

DeployFactoryReset == orch.prim = "deploy" /\ factory_reset(Me) /\ Alone

NextDeploy ==
    \/ DeployStart
    \/ DeploySetInitialValues
    \/ DeployResetCalculation
    \/ DeployResetComparison
    \/ DeployFactoryReset

SpecDeploy == Init /\ [][NextDeploy]_vars

(***************************************************************************)
(* Specification SpecGate: the peer interface of one node.  The deployment *)
(* configures a list of trusted addresses or none; callers reach the       *)
(* receive handlers and return-share-to-reconstruct directly or through a  *)
(* proxy that sets X-Forwarded-For.                                        *)
(***************************************************************************)

\* config.py:6-10: TRUSTED_IPS of the deployments, the addresses of the two peers
\* or no configuration
GateTrustedIps == {None, L(<<"10.0.0.1", "10.0.0.3">>)}

\* the X-Forwarded-For header of a request: absent, a peer, a stranger with a port
GateHeaders == {"", "10.0.0.1", "10.0.0.9:8000"}

\* request.client.host of a request: no client, a peer, a stranger
GateHosts == {"", "10.0.0.3", "10.0.0.9"}

\* the senders named in the body of a receive request
GateSenders == {1, Len(SERVERS)}

\* config.py:6-10: the process starts and reads its configuration
GateStart ==
    /\ orch.pc = 0
    /\ \E trusted_ips \in GateTrustedIps :
         orch' = [pc |-> 1, prim |-> "gate", trusted_ips |-> trusted_ips,
                  X_Forwarded_For |-> "", host |-> ""]
    /\ UNCHANGED <<st, net, out, resp, leg>>

GateSetInitialValues ==
    orch.prim = "gate" /\ set_initial_values(Me, Me, hex(5)) /\ Alone

GateNameShare == orch.prim = "gate" /\ set_shares(Me, "res", hex(2)) /\ Alone

GateResetCalculation == orch.prim = "gate" /\ reset_calculation(Me) /\ Alone

\* redistribution.py:149, 341, 511: a receive handler behind the gate, called with
\* the header of the request
GateReceive(op, X_Forwarded_For, host, party_id, value_hex) ==
    LET gate == request_is_from_trusted_ip(orch.trusted_ips, X_Forwarded_For, host)
    IN /\ orch.prim = "gate"
       /\ IF gate.raised # 0
          THEN Reject(Me, op, <<FALSE, party_id, value_hex>>, gate.raised)
          ELSE CASE op = "set_received_q" ->
                      set_received_q(Me, gate.is_trusted, party_id, value_hex)
                 [] op = "set_received_r" ->
                      set_received_r(Me, gate.is_trusted, party_id, value_hex)
                 [] op = "receive_u_from_parties" ->
                      receive_u_from_parties(Me, gate.is_trusted, party_id, value_hex)
       /\ orch' = [orch EXCEPT !.X_Forwarded_For = X_Forwarded_For, !.host = host]
       /\ UNCHANGED <<net, leg>>

GateReceiveQ ==
    \E X_Forwarded_For \in GateHeaders, host \in GateHosts, party_id \in GateSenders :
        GateReceive("set_received_q", X_Forwarded_For, host, party_id, hex(1))

GateReceiveR ==
    \E X_Forwarded_For \in GateHeaders, host \in GateHosts, party_id \in GateSenders :
        GateReceive("set_received_r", X_Forwarded_For, host, party_id, hex(1))

GateReceiveU ==
    \E X_Forwarded_For \in GateHeaders, host \in GateHosts, party_id \in GateSenders :
        GateReceive("receive_u_from_parties", X_Forwarded_For, host, party_id, hex(1))

GateReturnShare ==
    /\ orch.prim = "gate"
    /\ \E X_Forwarded_For \in GateHeaders, host \in GateHosts :
         LET answer == served_share_to_reconstruct(st[Me], orch.trusted_ips, host, "res")
         IN /\ Answer(Me, "get_share_to_reconstruct", <<"res">>, answer[1],
                      IF answer[1] = 200 THEN answer[2].share_to_reconstruct ELSE None)
            /\ orch' = [orch EXCEPT !.X_Forwarded_For = X_Forwarded_For, !.host = host]
    /\ UNCHANGED <<net, leg>>

NextGate ==
    \/ GateStart
    \/ GateSetInitialValues
    \/ GateNameShare
    \/ GateResetCalculation
    \/ GateReceiveQ
    \/ GateReceiveR
    \/ GateReceiveU
    \/ GateReturnShare

SpecGate == Init /\ [][NextGate]_vars

(***************************************************************************)
(* Specification SpecNames: the names of shares.  The orchestrator creates *)
(* named shares under any name, the buffers fill, and peers that pass the  *)
(* trust gate ask for shares under any name.                               *)
(***************************************************************************)

\* the names under which the orchestrator stores shares: a share of the protocol,
\* names that differ from a buffer's in case or by a blank, and a buffer's own name
CreatedNames == {"res", "Shared_Q", " shared_q", "CLIENT_SHARES", "shared_q"}

\* the names that peers ask for
RequestedNames ==
    CreatedNames \cup {" res", " Shared_U ", "client_shares", "shared_r", "shared_u"}

NamesSetInitialValues == set_initial_values(Me, Me, hex(5)) /\ Alone

NamesSetShares == \E name \in CreatedNames : set_shares(Me, name, hex(2)) /\ Alone

NamesPutClientShares == set_client_shares(Me, bidders[1], hex(4)) /\ Alone

NamesReceiveQ == set_received_q(Me, TRUE, 1, hex(3)) /\ Alone

NamesReceiveR == set_received_r(Me, TRUE, 1, hex(3)) /\ Alone

NamesReceiveU == receive_u_from_parties(Me, TRUE, 1, hex(3)) /\ Alone

NamesReturnShare ==
    \E name \in RequestedNames : return_share_to_reconstruct(Me, TRUE, name) /\ Alone

NextNames ==
    \/ NamesSetInitialValues
    \/ NamesSetShares
    \/ NamesPutClientShares
    \/ NamesReceiveQ
    \/ NamesReceiveR
    \/ NamesReceiveU
    \/ NamesReturnShare
    \/ FactoryReset

SpecNames == Init /\ [][NextNames]_vars

(***************************************************************************)
(* Specification SpecShamir: the sharing and the reconstruction of         *)
(* utils/utils.py as pure functions.  A run draws t, p and a secret,       *)
(* shares the secret among n = 2t+1 nodes with any outcome of the random   *)
(* coefficients, and reconstructs from the points.                         *)
(***************************************************************************)

\* the primes of the runs
ShamirPrimes == {5, 7}

\* the thresholds of the runs
ShamirThresholds == {1, 2}

\* a run draws a prime p, a threshold t >= 1 with n = 2t+1 < p and a secret in [0, p)
ShamirStart ==
    /\ orch.pc = 0
    /\ \E p \in ShamirPrimes, t \in ShamirThresholds, k0 \in 0..6 :
         /\ 2 * t + 1 < p
         /\ k0 < p
         /\ orch' = [pc |-> 1, prim |-> "shamir", t |-> t, n |-> 2 * t + 1, p |-> p,
                     k0 |-> k0, shares |-> <<>>, secret |-> 0]
    /\ UNCHANGED <<st, net, out, resp, leg>>

\* utils.py:274-290: shares = Shamir(t, n, k0, p)
ShamirShare ==
    /\ orch.prim = "shamir"
    /\ orch.pc = 1
    /\ \E shares \in Shamir(orch.t, orch.n, orch.k0, orch.p) :
         orch' = [orch EXCEPT !.pc = 2, !.shares = shares]
    /\ UNCHANGED <<st, net, out, resp, leg>>

\* utils.py:232-253: reconstruct_secret(shares, computate_coefficients(shares, p), p)
ShamirReconstruct ==
    /\ orch.prim = "shamir"
    /\ orch.pc = 2
    /\ orch' = [orch EXCEPT
                  !.pc = 3,
                  !.secret = reconstruct_secret(orch.shares,
                                                computate_coefficients(orch.shares, orch.p),
                                                orch.p)]
    /\ UNCHANGED <<st, net, out, resp, leg>>

NextShamir ==
    \/ ShamirStart
    \/ ShamirShare
    \/ ShamirReconstruct

SpecShamir == Init /\ [][NextShamir]_vars

(***************************************************************************)
(* Specification SpecRec: reconstruction in deployments of three and of    *)
(* five nodes.  The deployment (its servers, its trusted addresses) and a  *)
(* polynomial of degree < t are chosen first; every node is then given     *)
(* its parameters and its point of the polynomial under the name "res",    *)
(* and any node is asked for the secret at any moment.                     *)
(***************************************************************************)
RecServers == {<<1, 2, 3>>, <<1, 2, 3, 4, 5>>}

RecNodes == 1..5

RecPrimes == {7}

RecCoefficients == {2, 6}

RecTrustedIps == {None, L([i \in RecNodes |-> Address(i)])}

RecInit ==
    /\ st = [i \in RecNodes |-> BootState]
    /\ net = {}
    /\ out = {}
    /\ resp = [proc |-> 0, op |-> "boot", args |-> <<>>, code |-> 0, rep |-> FALSE,
               body |-> None]
    /\ orch = Idle
    /\ leg = [s |-> L_BootState, pend |-> {}]

\* tests/__init__.py: the deployment and the secret polynomial of a run
RecStart ==
    /\ orch.pc = 0
    /\ \E servers \in RecServers, trusted_ips \in RecTrustedIps, p \in RecPrimes :
         \E coefficients \in [1..((Len(servers) - 1) \div 2) -> RecCoefficients] :
           orch' = [pc |-> 1, prim |-> "rec", servers |-> servers, trusted_ips |-> trusted_ips,
                    p |-> p, coefficients |-> coefficients]
    /\ UNCHANGED <<st, net, out, resp, leg>>

\* routers/initialization.py:71-131 at node i of the chosen deployment
RecSetInitialValues ==
    /\ orch.prim = "rec"
    /\ \E i \in DOMAIN orch.servers :
         LET done == initial_values(st[i], orch.servers, WIREGUARD_IPS, i, hex(orch.p))
         IN IF done.code = 201
            THEN Accept(i, "set_initial_values", <<i, hex(orch.p)>>, 201, done.state, {})
            ELSE Reject(i, "set_initial_values", <<i, hex(orch.p)>>, done.code)
    /\ UNCHANGED <<net, orch, leg>>

\* routers/shares.py:177-195: node i, its parameters set, is given the
\* polynomial's value at i
RecSetShares ==
    /\ orch.prim = "rec"
    /\ \E i \in DOMAIN orch.servers :
         /\ ~IsNone(st[i].p)
         /\ set_shares(i, "res", hex(f(i, orch.coefficients, orch.p, Len(orch.coefficients))))
    /\ UNCHANGED <<net, orch, leg>>

\* routers/reconstruction.py:156-207 at any node of the chosen deployment
RecReturnSecret ==
    /\ orch.prim = "rec"
    /\ \E i \in DOMAIN orch.servers :
         reconstruct_secret_from_peers(i, orch.trusted_ips, "res")
    /\ UNCHANGED <<net, orch, leg>>

NextRec ==
    \/ RecStart
    \/ RecSetInitialValues
    \/ RecSetShares
    \/ RecReturnSecret

SpecRec == RecInit /\ [][NextRec]_vars

(***************************************************************************)
(* Specification SpecMatrix: the matrix of calculate_A applied as round R  *)
(* applies it.  A prime, a number of nodes n = 2t + 1 < p and a polynomial *)
(* of degree <= 2t are chosen; A is computed, the polynomial is evaluated  *)
(* at 1..n, and every node combines the values through A.                  *)
(***************************************************************************)
MatrixParameters == {[n |-> 3, p |-> 5], [n |-> 3, p |-> 7], [n |-> 5, p |-> 7]}

\* the coefficients of the polynomials: every field element for three nodes,
\* 0, 1 and p - 1 for five
MatrixCoefficients(n, p) == IF n = 3 THEN 0..(p - 1) ELSE {0, 1, p - 1}

MatrixStart ==
    /\ orch.pc = 0
    /\ \E par \in MatrixParameters :
         \E coefficients \in [1..par.n -> MatrixCoefficients(par.n, par.p)] :
           orch' = [pc |-> 1, prim |-> "matrix", t |-> (par.n - 1) \div 2, n |-> par.n,
                    p |-> par.p, coefficients |-> coefficients, A |-> None,
                    values |-> <<>>, combined |-> <<>>]
    /\ UNCHANGED <<st, net, out, resp, leg>>

\* routers/initialization.py:242-259
MatrixCalculateA ==
    /\ orch.prim = "matrix"
    /\ orch.pc = 1
    /\ orch' = [orch EXCEPT !.pc = 2, !.A = MatrixA(orch.t, orch.n, orch.p)]
    /\ UNCHANGED <<st, net, out, resp, leg>>

\* utils.py:274-275: node k holds the polynomial's value at k
MatrixEvaluate ==
    /\ orch.prim = "matrix"
    /\ orch.pc = 2
    /\ orch' = [orch EXCEPT
                  !.pc = 3,
                  !.values = [k \in 1..orch.n |-> f(k, orch.coefficients, orch.p, orch.n)]]
    /\ UNCHANGED <<st, net, out, resp, leg>>

\* routers/redistribution.py:262-268: node j sends (v_j * A[j - 1][i]) % p to node
\* i + 1, which adds up what it received
combine_through_A(values, A, p) ==
    [i \in DOMAIN values |->
        SumSeq([j \in DOMAIN values |-> (values[j] * A[j][i]) % p]) % p]

MatrixCombine ==
    /\ orch.prim = "matrix"
    /\ orch.pc = 3
    /\ IsList(orch.A)
    /\ orch' = [orch EXCEPT !.pc = 4,
                            !.combined = combine_through_A(orch.values, orch.A[2], orch.p)]
    /\ UNCHANGED <<st, net, out, resp, leg>>

NextMatrix ==
    \/ MatrixStart
    \/ MatrixCalculateA
    \/ MatrixEvaluate
    \/ MatrixCombine

SpecMatrix == Init /\ [][NextMatrix]_vars

(***************************************************************************)
(* Specification SpecComputeA: compute-A under every deployment of         *)
(* SpecDeploy and the primes 2, 3, 5 and 7, so that the matrix B of a      *)
(* deployment of n servers is singular when n > p.  The node is given its  *)
(* parameters, asked for A any number of times, and reset.                 *)
(***************************************************************************)
ComputeAPrimes == {hex(2), hex(3), hex(5), hex(7)}

\* routers/initialization.py:71-131 under the deployment of the run
ComputeASetInitialValues ==
    /\ orch.prim = "deploy"
    /\ \E p_hex \in ComputeAPrimes :
         LET done == initial_values(st[Me], orch.servers, orch.wireguard_ips, Me, p_hex)
         IN IF done.code = 201
            THEN Accept(Me, "set_initial_values", <<Me, p_hex>>, 201, done.state, {})
            ELSE Reject(Me, "set_initial_values", <<Me, p_hex>>, done.code)
    /\ Alone

\* routers/initialization.py:228-261
ComputeACalculateA == orch.prim = "deploy" /\ calculate_A(Me) /\ Alone

NextComputeA ==
    \/ DeployStart
    \/ ComputeASetInitialValues
    \/ ComputeACalculateA
    \/ DeployResetCalculation
    \/ DeployFactoryReset

SpecComputeA == Init /\ [][NextComputeA]_vars

(***************************************************************************)
(* Specification SpecU: the shared_u buffer of one node.  The node is      *)
(* given its parameters; peers deliver u-shares of two values at any       *)
(* moment and in any number; the node is reset at any moment.              *)
(***************************************************************************)
DeliverU ==
    \E trusted \in BOOLEAN, party_id \in PartyIds, v \in InboundValues :
        receive_u_from_parties(Me, trusted, party_id, v) /\ Alone

NextU ==
    \/ SetInitialValues
    \/ DeliverU
    \/ ResetCalculation
    \/ ResetComparison
    \/ FactoryReset

SpecU == Init /\ [][NextU]_vars

(***************************************************************************)
(* Specification SpecSend: the peer messages of one node, counted.  The    *)
(* orchestrator offers every request of a multiplication at every moment;  *)
(* orch.sent counts, for every peer, the q-share and r-share messages the  *)
(* node has sent to it since the last accepted reset_calculation.          *)
(***************************************************************************)
Peers == Procs \ {Me}

NothingSent == [kind \in {"q", "r"} |-> [k \in Peers |-> 0]]

\* the counts after the messages msgs have been sent
Count(sent, msgs) ==
    [kind \in {"q", "r"} |->
        [k \in Peers |-> sent[kind][k] + Cardinality({m \in msgs : m.kind = kind /\ m.to = k})]]

SendStart ==
    /\ orch.pc = 0
    /\ orch' = [pc |-> 1, prim |-> "send", sent |-> NothingSent]
    /\ UNCHANGED <<st, net, out, resp, leg>>

\* the run goes on until some peer has been sent a second message of a kind
Sending ==
    /\ orch.prim = "send"
    /\ \A k \in Peers : orch.sent["q"][k] <= 1 /\ orch.sent["r"][k] <= 1

SendSetInitialValues ==
    Sending /\ set_initial_values(Me, Me, hex(5)) /\ UNCHANGED <<net, orch, leg>>

SendCalculateA == Sending /\ calculate_A(Me) /\ UNCHANGED <<net, orch, leg>>

SendSetShares == Sending /\ set_shares(Me, "a", hex(2)) /\ UNCHANGED <<net, orch, leg>>

\* routers/redistribution.py:64-92
SendRedistributeQ ==
    /\ Sending
    /\ redistribute_q(Me)
    /\ orch' = [orch EXCEPT !.sent = Count(orch.sent, out')]
    /\ UNCHANGED <<net, leg>>

SendReceiveQ ==
    /\ Sending
    /\ \E party_id \in Peers : set_received_q(Me, TRUE, party_id, hex(1))
    /\ UNCHANGED <<net, orch, leg>>

\* routers/redistribution.py:196-283
SendRedistributeR ==
    /\ Sending
    /\ redistribute_r(Me, "a", "a")
    /\ orch' = [orch EXCEPT !.sent = Count(orch.sent, out')]
    /\ UNCHANGED <<net, leg>>

\* routers/reset.py: an accepted reset_calculation ends the round
SendResetCalculation ==
    /\ orch.prim = "send"
    /\ reset_calculation(Me)
    /\ orch' = [orch EXCEPT !.sent = IF resp'.code = 201 THEN NothingSent ELSE orch.sent]
    /\ UNCHANGED <<net, leg>>

NextSend ==
    \/ SendStart
    \/ SendSetInitialValues
    \/ SendCalculateA
    \/ SendSetShares
    \/ SendRedistributeQ
    \/ SendReceiveQ
    \/ SendRedistributeR
    \/ SendResetCalculation

SpecSend == Init /\ [][NextSend]_vars

(***************************************************************************)
(* Specification SpecZ: the z tables of one node.  The node is given its   *)
(* parameters, its matrix and a full round of q-shares; the orchestrator   *)
(* then stores random bit shares, prepares the z tables from an opened a   *)
(* and asks for the additive share and the round-R shares of a position,   *)
(* in any order and any number of times.                                   *)
(***************************************************************************)
ZOpened == {hex(0), hex(1), hex(5)}

ZLengths == {1, 2}

ZSecurity == {0, 1}

ZBitShares == {hex(3)}

ZIndexes == {0, 1}

ZSetInitialValues == set_initial_values(Me, Me, hex(5)) /\ Alone

ZCalculateA == calculate_A(Me) /\ Alone

\* the q-shares of a round: the node's own and one of every peer
ZRedistributeQ ==
    /\ ~(IsList(st[Me].shares["shared_q"]) /\ ~IsNone(st[Me].shares["shared_q"][2][Me]))
    /\ redistribute_q(Me)
    /\ Alone

ZReceiveQ ==
    /\ ~IsNone(st[Me].A)
    /\ \E party_id \in Procs \ {Me} : set_received_q(Me, TRUE, party_id, hex(1))
    /\ Alone

ZSetTemporaryRandomBit ==
    \E v \in ZBitShares : set_shares(Me, "temporary_random_bit", v) /\ Alone

ZSetRandomNumberBitShare ==
    \E bit_index \in ZIndexes :
        set_random_number_bit_share_to_temporary_random_bit_share(Me, bit_index) /\ Alone

ZPrepareZTables ==
    \E opened_a \in ZOpened, l \in ZLengths, k \in ZSecurity :
        prepare_z_tables(Me, opened_a, l, k) /\ Alone

ZCalculateAdditiveShare ==
    \E index \in ZIndexes : calculate_additive_share_of_z_table_arguments(Me, index) /\ Alone

ZCalculateROfZTable ==
    \E index \in ZIndexes : calculate_r_of_z_table(Me, index) /\ Alone

NextZ ==
    \/ ZSetInitialValues
    \/ ZCalculateA
    \/ ZRedistributeQ
    \/ ZReceiveQ
    \/ ZSetTemporaryRandomBit
    \/ ZSetRandomNumberBitShare
    \/ ZPrepareZTables
    \/ ZCalculateAdditiveShare
    \/ ZCalculateROfZTable

SpecZ == Init /\ [][NextZ]_vars

(***************************************************************************)
(* Specification SpecRomb: the sweep of the comparison on clear bits.      *)
(* Bits a_0..a_(l-1) and r_0..r_(l-1) are chosen; z_table holds a_i XOR    *)
(* r_i and Z_table holds a_i; the orchestrator initialises (z, Z) and      *)
(* runs prepare-for-next-romb and the four operations of a step for        *)
(* i = l - 1 down to 0.  orch.tables[i + 1] is the code's position i.      *)
(***************************************************************************)
RombLengths == {1, 2, 3}

\* an XOR that subtracts the product once: the OR of two bits
xor_clear_single_product(a, b) == a + b - a * b

\* the value the XOR of two shares opens to: additive share less twice the
\* product (routers/xor.py:47-64)
xor_clear(a, b) == a + b - 2 * a * b

RombStart ==
    /\ orch.pc = 0
    /\ \E l \in RombLengths :
         \E a \in [1..l -> {0, 1}], r \in [1..l -> {0, 1}] :
           orch' = [pc |-> 1, prim |-> "romb", l |-> l, a |-> a, r |-> r,
                    z_table |-> [j \in 1..l |-> xor_clear(a[j], r[j])], Z_table |-> a,
                    index |-> l - 1,
                    shares |-> [z |-> 0, Z |-> 0, x |-> 0, X |-> 0, y |-> 0, Y |-> 0]]
    /\ UNCHANGED <<st, net, out, resp, leg>>

\* routers/comparison.py:474-503 with l
RombInitialize ==
    /\ orch.prim = "romb"
    /\ orch.pc = 1
    /\ orch' = [orch EXCEPT !.pc = 2,
                            !.shares = Update(orch.shares, [z |-> orch.z_table[orch.l],
                                                             Z |-> orch.Z_table[orch.l]])]
    /\ UNCHANGED <<st, net, out, resp, leg>>

\* routers/comparison.py:541-578 with the index of the step
RombPrepare ==
    /\ orch.prim = "romb"
    /\ orch.pc = 2
    /\ orch.index >= 0
    /\ LET xX == Update(orch.shares, [x |-> orch.shares["z"], X |-> orch.shares["Z"]])
       IN orch' = [orch EXCEPT
                     !.pc = 3,
                     !.shares = IF orch.index = 0
                                THEN Update(xX, [y |-> 0, Y |-> 0])
                                ELSE Update(xX, [y |-> orch.z_table[orch.index],
                                                 Y |-> orch.Z_table[orch.index]])]
    /\ UNCHANGED <<st, net, out, resp, leg>>

\* tests/__init__.py:718-781: z = x * y, Z = X XOR Y, Z = x * Z, Z = Z XOR X
RombCombine ==
    /\ orch.prim = "romb"
    /\ orch.pc = 3
    /\ LET s == orch.shares
           z == s["x"] * s["y"]
           Z1 == xor_clear(s["X"], s["Y"])
           Z2 == s["x"] * Z1
           Z3 == xor_clear(Z2, s["X"])
       IN orch' = [orch EXCEPT !.pc = 2, !.index = orch.index - 1,
                               !.shares = Update(s, [z |-> z, Z |-> Z3])]
    /\ UNCHANGED <<st, net, out, resp, leg>>

NextRomb ==
    \/ RombStart
    \/ RombInitialize
    \/ RombPrepare
    \/ RombCombine

SpecRomb == Init /\ [][NextRomb]_vars

(***************************************************************************)
(* Specification SpecBit: the generation of the random bits on the values  *)
(* the shares open to (share_random_bit, tests/__init__.py:367-546).  The  *)
(* shared u is the sum modulo p of the nodes' contributions, so it can be  *)
(* any residue, 0 included.                                                *)
(***************************************************************************)

\* the primes of the runs
BitPrimes == {3, 5, 7, 11}

\* the bit indexes of a run
BitIndexes == {0, 1}

\* a square root that is always 1
smallest_square_root_modulo_one(number, modulus) == 1

\* tests/__init__.py:21-27: the first i of range(modulus) whose square is the
\* number, 0 when there is none
smallest_square_root_modulo(number, modulus) ==
    LET roots == {i \in 0..(modulus - 1) : (i * i) % modulus = number}
    IN IF roots = {} THEN 0 ELSE CHOOSE i \in roots : \A j \in roots : i <= j

\* main draws the prime and asks for the bit indexes in turn
BitStart ==
    /\ orch.pc = 0
    /\ \E p \in BitPrimes :
         orch' = [pc |-> 1, prim |-> "bit", p |-> p, u |-> 0, v |-> 0, opened_v |-> 0,
                  bit |-> 0, bits |-> <<>>, restarted |-> FALSE]
    /\ UNCHANGED <<st, net, out, resp, leg>>

\* tests/__init__.py:335-364 and 370: share_random_u leaves a sharing of the sum
\* of the contributions modulo p
BitShareRandomU ==
    /\ orch.prim = "bit"
    /\ orch.pc = 1
    /\ Len(orch.bits) < Cardinality(BitIndexes)
    /\ \E u \in 0..(orch.p - 1) : orch' = [orch EXCEPT !.pc = 2, !.u = u]
    /\ UNCHANGED <<st, net, out, resp, leg>>

\* tests/__init__.py:372-379: v = u * u
BitSquare ==
    /\ orch.prim = "bit"
    /\ orch.pc = 2
    /\ orch' = [orch EXCEPT !.pc = 3, !.v = (orch.u * orch.u) % orch.p]
    /\ UNCHANGED <<st, net, out, resp, leg>>

\* tests/__init__.py:368-369 and 395-410: v is opened, and while opened_v <= 0
\* the loop starts again from share_random_u
BitOpen ==
    /\ orch.prim = "bit"
    /\ orch.pc = 3
    /\ orch' = [orch EXCEPT !.opened_v = orch.v,
                            !.pc = IF orch.v <= 0 THEN 1 ELSE 4,
                            !.restarted = IF orch.v <= 0 THEN TRUE ELSE @]
    /\ UNCHANGED <<st, net, out, resp, leg>>

\* tests/__init__.py:414-546: w, its inverse, [w^-1 * u], [w^-1 * u + 1] and the
\* product with the inverse of two, stored as the bit of the index
BitStore ==
    /\ orch.prim = "bit"
    /\ orch.pc = 4
    /\ LET p == orch.p
           w == smallest_square_root_modulo(orch.opened_v, p)
           inverse_w == modular_multiplicative_inverse(w, p)
           inverse_w_times_u == (inverse_w * orch.u) % p
           inverse_w_times_u_plus_one == (inverse_w_times_u + 1) % p
           inverse_two == modular_multiplicative_inverse(2, p)
           temporary_random_bit == (inverse_w_times_u_plus_one * inverse_two) % p
       IN orch' = [orch EXCEPT !.pc = 1, !.bit = temporary_random_bit,
                               !.bits = Append(@, temporary_random_bit)]
    /\ UNCHANGED <<st, net, out, resp, leg>>

NextBit ==
    \/ BitStart
    \/ BitShareRandomU
    \/ BitSquare
    \/ BitOpen
    \/ BitStore

SpecBit == Init /\ [][NextBit]_vars

(***************************************************************************)
(* Specification SpecURound: the rounds of share_random_u at one node      *)
(* (tests/__init__.py:335-364).  Every round the node is asked to          *)
(* redistribute its u; the u-shares of the peers arrive or not; then the   *)
(* node is asked for the sum.  orch.secret is the value the node drew,     *)
(* orch.round counts the rounds, and orch.wrote[k] is the round in which   *)
(* slot k of shared_u was last written (0: never).                         *)
(***************************************************************************)

\* the u-shares a peer sends
PeerUShares == {hex(1), hex(2)}

URoundStart ==
    /\ orch.pc = 0
    /\ orch' = [pc |-> 1, prim |-> "uround", round |-> 0, secret |-> 1,
                wrote |-> [k \in Procs |-> 0], summed |-> [k \in Procs |-> 0]]
    /\ UNCHANGED <<st, net, out, resp, leg>>

URoundSetInitialValues ==
    /\ orch.prim = "uround"
    /\ set_initial_values(Me, Me, hex(5))
    /\ Alone

\* POST /api/redistribute-u opens a round (two rounds are followed)
URoundRedistributeU ==
    /\ orch.prim = "uround"
    /\ orch.round < Cardinality({1, 2})
    /\ ~IsNone(st[Me].p)
    /\ \E u_k \in secure_randint(1, st[Me].p[2]) :
         /\ redistribute_u(Me, u_k)
         /\ orch' = [orch EXCEPT !.round = @ + 1, !.secret = u_k,
                                 !.wrote = [@ EXCEPT ![Me] = orch.round + 1]]
    /\ UNCHANGED <<net, leg>>

\* the u-share of a peer for the round under way arrives, once
URoundReceiveU ==
    /\ orch.prim = "uround"
    /\ orch.round > 0
    /\ \E k \in Procs \ {Me}, v \in PeerUShares :
         /\ orch.wrote[k] < orch.round
         /\ receive_u_from_parties(Me, TRUE, k, v)
         /\ orch' = [orch EXCEPT !.wrote = [@ EXCEPT ![k] = orch.round]]
    /\ UNCHANGED <<net, leg>>

\* PUT /api/calculate-shared-u; orch.summed remembers the rounds of the slots
\* of an accepted sum
URoundCalculateU ==
    /\ orch.prim = "uround"
    /\ orch.round > 0
    /\ calculate_u(Me)
    /\ orch' = [orch EXCEPT !.summed = IF resp'.code = 201 THEN orch.wrote ELSE @]
    /\ UNCHANGED <<net, leg>>

\* POST /api/reset-calculation, sent by the driver after every multiplication
URoundResetCalculation ==
    /\ orch.prim = "uround"
    /\ reset_calculation(Me)
    /\ Alone

NextURound ==
    \/ URoundStart
    \/ URoundSetInitialValues
    \/ URoundRedistributeU
    \/ URoundReceiveU
    \/ URoundCalculateU
    \/ URoundResetCalculation

SpecURound == Init /\ [][NextURound]_vars

(***************************************************************************)
(* Specification SpecDegree: the polynomials behind the points of Shamir.  *)
(* A run draws p, t with n = 2t+1 < p and a secret, and takes either a     *)
(* sharing of the secret, Shamir(t, n, k0, p), or the q-shares of a        *)
(* multiplication, Shamir(2t, n, 0, p).                                    *)
(***************************************************************************)

\* the secrets of the runs
DegreeSecrets == {0, 1, 3}

DegreeStart ==
    /\ orch.pc = 0
    /\ \E p \in ShamirPrimes, t \in ShamirThresholds, k0 \in DegreeSecrets :
         /\ 2 * t + 1 < p
         /\ orch' = [pc |-> 1, prim |-> "degree", t |-> t, n |-> 2 * t + 1, p |-> p,
                     k0 |-> k0, degree |-> 0, shares |-> <<>>]
    /\ UNCHANGED <<st, net, out, resp, leg>>

\* utils.py:274-290: Shamir(t, n, k0, p), asked for a polynomial of degree t
DegreeShare ==
    /\ orch.prim = "degree"
    /\ orch.pc = 1
    /\ \E shares \in Shamir(orch.t, orch.n, orch.k0, orch.p) :
         orch' = [orch EXCEPT !.pc = 2, !.degree = orch.t, !.shares = shares]
    /\ UNCHANGED <<st, net, out, resp, leg>>

\* routers/redistribution.py:77: q = Shamir(2 * t, n, 0, p), asked for a
\* polynomial of degree 2t with free term 0
DegreeShareQ ==
    /\ orch.prim = "degree"
    /\ orch.pc = 1
    /\ \E q \in Shamir(2 * orch.t, orch.n, 0, orch.p) :
         orch' = [orch EXCEPT !.pc = 2, !.degree = 2 * orch.t, !.k0 = 0, !.shares = q]
    /\ UNCHANGED <<st, net, out, resp, leg>>

NextDegree ==
    \/ DegreeStart
    \/ DegreeShare
    \/ DegreeShareQ

SpecDegree == Init /\ [][NextDegree]_vars

(***************************************************************************)
(* Specification SpecReserved: the requests that write a named share, with *)
(* the names of the reserved slots among the names supplied.  The driver   *)
(* prepares the additive, multiplicative and XOR registers in order; then  *)
(* every named write is offered at every moment with every name.           *)
(***************************************************************************)

\* the slots of state["shares"] the protocol keeps for itself
ReservedSlots == {"client_shares", "shared_q", "shared_r", "shared_u"}

\* the share names supplied
SuppliedNames == ReservedSlots \cup {"res"}

\* the driver first prepares the three registers, each request once
ReservedPrepared == ~IsNone(st[Me].xor_share)

ReservedSetInitialValues ==
    /\ IsNone(st[Me].n)
    /\ set_initial_values(Me, Me, hex(5))
    /\ Alone

ReservedPutClientShares ==
    /\ ~IsNone(st[Me].n)
    /\ "res" \notin DOMAIN st[Me].shares
    /\ set_client_shares(Me, bidders[1], hex(4))
    /\ Alone

ReservedSetShares ==
    /\ ~IsNone(st[Me].n)
    /\ \E name \in SuppliedNames :
         /\ ~ReservedPrepared => (name = "res" /\ "res" \notin DOMAIN st[Me].shares)
         /\ set_shares(Me, name, hex(2))
    /\ Alone

ReservedCalculateAdditiveShare ==
    /\ "res" \in DOMAIN st[Me].shares
    /\ IsNone(st[Me].additive_share)
    /\ calculate_additive_share(Me, "res", "res")
    /\ Alone

ReservedReceiveR ==
    /\ ~IsNone(st[Me].additive_share)
    /\ IsNone(st[Me].multiplicative_share)
    /\ \E party_id \in Procs :
         /\ \A k \in Procs : IsNone(st[Me].shares["shared_r"][2][k]) <=> k >= party_id
         /\ set_received_r(Me, TRUE, party_id, hex(3))
    /\ Alone

ReservedCalculateMultiplicativeShare ==
    /\ ~IsNone(st[Me].additive_share)
    /\ IsNone(st[Me].multiplicative_share)
    /\ \A k \in Procs : ~IsNone(st[Me].shares["shared_r"][2][k])
    /\ calculate_multiplicative_share(Me)
    /\ Alone

ReservedCalculateXorShare ==
    /\ ~IsNone(st[Me].multiplicative_share)
    /\ ~ReservedPrepared
    /\ calculate_xor_share(Me)
    /\ Alone

ReservedSetFromAdditiveShare ==
    /\ ReservedPrepared
    /\ \E name \in SuppliedNames : set_share_from_additive_share(Me, name)
    /\ Alone

ReservedSetFromMultiplicativeShare ==
    /\ ReservedPrepared
    /\ \E name \in SuppliedNames : set_share_from_multiplicative_share(Me, name)
    /\ Alone

ReservedSetFromXorShare ==
    /\ ReservedPrepared
    /\ \E name \in SuppliedNames : set_share_from_xor_share(Me, name)
    /\ Alone

NextReserved ==
    \/ ReservedSetInitialValues
    \/ ReservedPutClientShares
    \/ ReservedSetShares
    \/ ReservedCalculateAdditiveShare
    \/ ReservedReceiveR
    \/ ReservedCalculateMultiplicativeShare
    \/ ReservedCalculateXorShare
    \/ ReservedSetFromAdditiveShare
    \/ ReservedSetFromMultiplicativeShare
    \/ ReservedSetFromXorShare

SpecReserved == Init /\ [][NextReserved]_vars

(***************************************************************************)
(* Specification SpecRound: one multiplication round of the n nodes, with  *)
(* fairness.  After the preparation the orchestrator posts                 *)
(* reset_calculation, redistribute_q, redistribute_r and                   *)
(* calculate_multiplicative_share, each to every node at once and each     *)
(* after every answer of the phase before; the peer messages are delivered *)
(* in any order.  orch.early tells that a share reached a node that had    *)
(* not yet been asked for the phase.  Once the nodes are prepared, every   *)
(* request that is posted is eventually served, every peer message is      *)
(* eventually delivered and the orchestrator goes on to the next phase.    *)
(***************************************************************************)
\* the secrets of the round: their product exceeds p
RoundSecrets == {<<3, 4>>}

RoundStart ==
    /\ orch.pc = 0
    /\ \E xy \in RoundSecrets, p \in RunPrimes :
         \E x \in Polynomials(RunT, xy[1], p), y \in Polynomials(RunT, xy[2], p) :
            orch' = [pc |-> 1, prim |-> "round", x |-> x, y |-> y, p |-> hex(p),
                     todo |-> Procs, early |-> FALSE]
    /\ UNCHANGED <<st, net, out, resp, leg>>

\* a peer message reaches its addressee
RoundDeliver ==
    /\ orch.prim = "round"
    /\ \E msg \in net :
         /\ IF msg.kind = "q"
            THEN set_received_q(msg.to, TRUE, msg.party_id, msg.val)
            ELSE set_received_r(msg.to, TRUE, msg.party_id, msg.val)
         /\ net' = net \ {msg}
         /\ orch' = [orch EXCEPT !.early = @ \/ msg.to \in orch.todo]
    /\ UNCHANGED leg

\* a request of the round itself, the preparation being over
RoundRequest == orch.pc > Len(Setup) /\ Request

NextRound ==
    \/ RoundStart
    \/ Request
    \/ RoundDeliver
    \/ Barrier

SpecRound ==
    /\ Init
    /\ [][NextRound]_vars
    /\ WF_vars(RoundRequest)
    /\ WF_vars(RoundDeliver)
    /\ WF_vars(Barrier)

(***************************************************************************)
(* Specification SpecLegacy: one node of the label generation, every       *)
(* request offered at every moment, its peers as environment.  The         *)
(* orchestrator sends a node its next request when the previous one is     *)
(* answered; peer messages arrive at any time.                             *)
(***************************************************************************)
LegacyAlone == UNCHANGED <<st, net, orch>>

\* no request of the orchestrator is outstanding
Answered == leg.pend = {}

\* the RData bodies of the runs: the product zZ[0][0] * zZ[0][1]
RInputs ==
    {[take |-> FALSE, first |-> <<0, 0>>, second |-> <<0, 1>>, final |-> FALSE,
      opened_a |-> hex(1), l |-> 1, k |-> 1]}

\* the CalculateMultiplicativeShareData bodies of the runs
FinalizeInputs == {<<None, TRUE>>, <<I(0), FALSE>>, <<None, FALSE>>}

LegacySetInitialValues ==
    \E p_hex \in PInputs :
        Answered /\ L_set_initial_values(RunT, Len(SERVERS), Me, p_hex, SERVERS) /\ LegacyAlone

LegacyCalculateZ == Answered /\ L_calculate_z(hex(1), 1, 1) /\ LegacyAlone

LegacyRedistributeQ == Answered /\ L_redistribute_q /\ LegacyAlone

LegacyRedistributeQDone == L_redistribute_q_done /\ LegacyAlone

LegacyReceiveQ ==
    \E party_id \in PartyIds, v \in PeerValues : L_set_received_q(party_id, v) /\ LegacyAlone

LegacyRedistributeR ==
    \E values \in RInputs :
        Answered /\ L_redistribute_r(values) /\ LegacyAlone

LegacyRedistributeRDone == L_redistribute_r_done /\ LegacyAlone

LegacyReceiveR ==
    \E party_id \in PartyIds, v \in PeerValues : L_set_received_r(party_id, v) /\ LegacyAlone

LegacyCalculateMultiplicativeShare ==
    \E values \in FinalizeInputs :
        Answered /\ L_calculate_multiplicative_share(values[1], values[2]) /\ LegacyAlone

LegacyResetCalculation == Answered /\ L_reset_calculation /\ LegacyAlone

LegacyFactoryReset == Answered /\ L_factory_reset /\ LegacyAlone

NextLegacy ==
    \/ LegacySetInitialValues
    \/ LegacyCalculateZ
    \/ LegacyRedistributeQ
    \/ LegacyRedistributeQDone
    \/ LegacyReceiveQ
    \/ LegacyRedistributeR
    \/ LegacyRedistributeRDone
    \/ LegacyReceiveR
    \/ LegacyCalculateMultiplicativeShare
    \/ LegacyResetCalculation
    \/ LegacyFactoryReset

SpecLegacy == Init /\ [][NextLegacy]_vars

(***************************************************************************)
(* Specification SpecRace: one node of the label generation whose          *)
(* reset_calculation is processed at any moment, also while a              *)
(* redistribute_q or redistribute_r of the node is suspended on its peer   *)
(* calls (the handlers are coroutines of one event loop and the reset has  *)
(* no await).  The other requests come one after the other.                *)
(***************************************************************************)
RaceResetCalculation == L_reset_calculation /\ LegacyAlone

NextRace ==
    \/ LegacySetInitialValues
    \/ LegacyCalculateZ
    \/ LegacyRedistributeQ
    \/ LegacyRedistributeQDone
    \/ LegacyReceiveQ
    \/ LegacyRedistributeR
    \/ LegacyRedistributeRDone
    \/ LegacyReceiveR
    \/ RaceResetCalculation

SpecRace == Init /\ [][NextRace]_vars

\* the node's own slot of the buffer is filled
L_OwnSlotFilled(key) ==
    /\ IsList(leg.s[key])
    /\ IsInt(leg.s.id)
    /\ leg.s.id[2] \in DOMAIN leg.s[key][2]
    /\ ~IsNone(leg.s[key][2][leg.s.id[2]])

\* C40: in every reachable state the label Q_CALC_SHARED implies that the node's
\* own slot of shared_q is not None and the label R_CALC_SHARED that its own slot
\* of shared_r is not None, also when reset_calculation is processed while a
\* redistribute_q or redistribute_r is suspended on its peer calls.
C40_LabelAndBufferConsistent ==
    /\ leg.s.status = "Q_CALC_SHARED" => L_OwnSlotFilled("shared_q")
    /\ leg.s.status = "R_CALC_SHARED" => L_OwnSlotFilled("shared_r")

\* an accepted reset_calculation leaves the label INITIALIZED and both buffers
\* empty, whether or not a fan-out is suspended
ResetEmptiesBuffers ==
    (resp.op = "reset_calculation" /\ resp.code = 201) =>
        /\ leg.s.status = "INITIALIZED"
        /\ \A key \in {"shared_q", "shared_r"} :
             \A k \in DOMAIN leg.s[key][2] : IsNone(leg.s[key][2][k])

\* reset_calculation has been accepted while a fan-out was suspended
ResetWhileSuspended ==
    /\ resp.op = "reset_calculation"
    /\ resp.code = 201
    /\ leg.pend # {}

(***************************************************************************)
(* Properties of the round engine.                                         *)
(***************************************************************************)
ReceiveOps == {"set_received_q", "set_received_r"}

ReceiveKey(op) == IF op = "set_received_q" THEN "shared_q" ELSE "shared_r"

\* C5: a receive-q / receive-r message of a trusted peer with sender id s, at a node
\* whose slots exist, writes the payload into slot s (and nothing else) exactly when
\* 1 <= s <= n and the slot is None; otherwise (the slot already holds a payload, or
\* s is outside [1, n]) it is rejected; and every rejected message, whatever the
\* reason, leaves the whole node state unchanged and sends nothing.
C5_FirstWriteWins ==
    [][resp'.op \in ReceiveOps =>
        LET key == ReceiveKey(resp'.op)
            trusted == resp'.args[1]
            s == resp'.args[2]
            payload == I(int16(resp'.args[3]))
            old == st[Me].shares[key]
            new == st'[Me].shares[key]
        IN /\ (trusted /\ IsList(old)) =>
                IF s \in 1..st[Me].n[2] /\ IsNone(old[2][s])
                THEN /\ resp'.code = 201
                     /\ new = L([old[2] EXCEPT ![s] = payload])
                     /\ st' = [st EXCEPT ![Me].shares = Put(st[Me].shares, key, new)]
                ELSE resp'.code # 201
           /\ resp'.code # 201 => (st' = st /\ out' = {})
    ]_vars

\* C5 witness: a peer whose payload is already stored has sent a different payload
\* and was rejected; the slot still holds the first payload.
C5_Witness ==
    /\ resp.op = "set_received_q"
    /\ resp.code = 400
    /\ resp.args[1]
    /\ resp.args[2] \in 1..Len(SERVERS)
    /\ IsList(st[Me].shares["shared_q"])
    /\ IsInt(st[Me].shares["shared_q"][2][resp.args[2]])
    /\ st[Me].shares["shared_q"][2][resp.args[2]] # I(int16(resp.args[3]))

\* the slots of shared_q that are None; all of them when the list does not exist
MissingQ(s) ==
    IF "shared_q" \in DOMAIN s.shares /\ IsList(s.shares["shared_q"])
    THEN {k \in DOMAIN s.shares["shared_q"][2] : IsNone(s.shares["shared_q"][2][k])}
    ELSE Procs

\* C6: a redistribute-r issued while some shared_q slot is None, or with an operand
\* name that is not a stored share, or while A is None, is rejected, sends no
\* r-share and changes no node's state (so no shared_r slot changes).
C6_RoundRGuard ==
    [][(/\ resp'.op = "redistribute_r"
        /\ \/ MissingQ(st[Me]) # {}
           \/ IsNone(Get(st[Me].shares, resp'.args[1]))
           \/ IsNone(Get(st[Me].shares, resp'.args[2]))
           \/ IsNone(st[Me].A))
       => (resp'.code # 201 /\ out' = {} /\ st' = st)
    ]_vars

\* C6 witness: an initialised node with A, with its operand stored and with some but
\* not all q-shares present has rejected redistribute-r.
C6_Witness ==
    /\ resp.op = "redistribute_r"
    /\ resp.code = 400
    /\ ~IsNone(st[Me].A)
    /\ IsInt(Get(st[Me].shares, resp.args[1]))
    /\ MissingQ(st[Me]) # {}
    /\ MissingQ(st[Me]) # Procs
    /\ st[Me].shares["shared_r"] = NoneList(Len(SERVERS))

\* C7: a redistribute-q that directly follows an accepted redistribute-q of the same
\* node (no reset in between) is rejected, sends no q-share and leaves the node
\* state, its own shared_q slot included, unchanged.
C7_RoundQGuard ==
    [][(resp.op = "redistribute_q" /\ resp.code = 201 /\ resp'.op = "redistribute_q")
       => (resp'.code # 201 /\ out' = {} /\ st' = st)
    ]_vars

\* C10: a factory reset that directly follows a factory reset leaves the node state
\* as the first one left it.
C10_FactoryResetIdempotent ==
    [][(resp.op = "factory_reset" /\ resp'.op = "factory_reset") => st' = st]_vars

\* C10 witness: the second of two consecutive factory resets has been served.
C10_Witness ==
    /\ resp.op = "factory_reset"
    /\ resp.rep
    /\ resp.code = 201

(***************************************************************************)
(* Properties of the orchestrated runs.                                    *)
(***************************************************************************)
\* the secrets of the run and its prime
SecretX == orch.x[1]

SecretY == orch.y[1]

RunP == int16(orch.p)

\* node resp.proc has answered reconstruct-secret in a run of the primitive
Reconstructed(prim) == orch.prim = prim /\ resp.op = "return_secret"

CmpReconstructed(name) ==
    orch.prim = "cmp" /\ resp.op = "return_secret" /\ resp.args = <<name>>

\* C2: after the orchestrated comparison of client values x, y in [0, 2^l) with a
\* mask of bits r_0..r_{l+k} (calc-a, open a, prepare-z-tables, per-bit XOR pass,
\* init-z-Z, romb sweep, the two final XORs), every node's reconstruct-secret of
\* "res" succeeds and returns 1 if x >= y and 0 otherwise.
C2_ComparisonCorrect ==
    CmpReconstructed("res") =>
        (resp.code = 200 /\ int16(resp.body) = (IF SecretX >= SecretY THEN 1 ELSE 0))

(***************************************************************************)
(* Properties of the life cycle of a node.                                 *)
(***************************************************************************)
\* C11: a factory reset that is served leaves the node in the state of a freshly
\* booted node (so that every later request is answered as on a fresh node).
C11_FactoryResetIsBoot ==
    [][(resp'.op = "factory_reset" /\ resp'.code = 201) => st'[resp'.proc] = BootState]_vars

\* C12: a reset_calculation that is served on an initialised node leaves
\* multiplicative_share, additive_share and xor_share None and each of the buffers
\* shared_q, shared_r and shared_u with n slots that are all None.
C12_ResetCalculation ==
    [][(resp'.op = "reset_calculation" /\ resp'.code = 201) =>
          LET s == st'[resp'.proc]
          IN /\ IsNone(s.multiplicative_share)
             /\ IsNone(s.additive_share)
             /\ IsNone(s.xor_share)
             /\ \A key \in {"shared_q", "shared_r", "shared_u"} :
                    s.shares[key] = NoneList(s.n[2])
    ]_vars

\* the long-lived data of a node
LongLived(s) == <<s.t, s.n, s.id, s.p, s.parties, s.A, Get(s.shares, "client_shares")>>

\* C13: reset_calculation and reset_comparison leave the client_shares list, the
\* parameters t, n, id, p, parties and the matrix A as they were.
C13_ResetsKeepLongLived ==
    [][resp'.op \in {"reset_calculation", "reset_comparison"} =>
          LongLived(st'[resp'.proc]) = LongLived(st[resp'.proc])
    ]_vars

\* the named shares of the comparison
ComparisonScratch == {"comparison_a", "z", "Z", "x", "X", "y", "Y", "a_l", "r_l", "res"}

\* C14: after a reset_comparison that is served, z_table, Z_table,
\* comparison_a_bits and random_number_bit_shares are empty, random_number_share is
\* None, the named shares u, v and the comparison scratch hold no value, and
\* return-share-to-reconstruct of res and of comparison_a fails.
C14_ResetComparisonClears ==
    [][(resp'.op = "reset_comparison" /\ resp'.code = 201) =>
          LET s == st'[resp'.proc]
          IN /\ s.z_table = L(<<>>)
             /\ s.Z_table = L(<<>>)
             /\ s.comparison_a_bits = L(<<>>)
             /\ s.random_number_bit_shares = L(<<>>)
             /\ IsNone(s.random_number_share)
             /\ \A name \in {"u", "v"} \cup ComparisonScratch : IsNone(Get(s.shares, name))
             /\ \A name \in {"res", "comparison_a"} :
                    get_share_to_reconstruct(s, TRUE, name)[1] # 200
    ]_vars

\* some parameter of the node is set
AnySet(s) == \E key \in {"t", "n", "id", "p", "parties"} : ~IsNone(s[key])

\* C16: initial-values on a node that has any of t, n, id, p, parties set is rejected
\* and leaves the whole state unchanged; the parameters of a node are unset again
\* only by a factory reset, so that only then initial-values is accepted again.
C16_InitialiseOnce ==
    [][/\ (resp'.op = "set_initial_values" /\ AnySet(st[resp'.proc])) =>
              (resp'.code = 400 /\ st' = st)
       /\ \A i \in Procs :
              (AnySet(st[i]) /\ ~AnySet(st'[i])) => resp'.op = "factory_reset"
       /\ \A i \in Procs :
              (AnySet(st[i]) /\ AnySet(st'[i])) =>
                  \A key \in {"t", "n", "id", "p", "parties"} : st'[i][key] = st[i][key]
    ]_vars

\* C16 witness: the second of two consecutive initial-values has been rejected on
\* the node that the first one initialised.
C16_Witness ==
    /\ resp.op = "set_initial_values"
    /\ resp.rep
    /\ resp.code = 400
    /\ AnySet(st[resp.proc])

\* C18: the id of an initialised node lies in [1..n] (initial-values with another
\* id is rejected).
C18_NodeId ==
    \A i \in Procs :
        ~IsNone(st[i].id) => (1 <= st[i].id[2] /\ st[i].id[2] <= st[i].n[2])

\* the reply to reconstruct-secret of name in the second comparison of a repeated run
RepeatReconstructed(name) ==
    /\ orch.prim = "repeat"
    /\ orch.pc > Len(<< <<"factory_reset">> >> \o main(orch.l, orch.k)) + 1
    /\ resp.op = "return_secret"
    /\ resp.args = <<name>>

\* C15: after a complete comparison and reset-comparison on every node, the
\* comparison run again on the stored client shares, without factory-reset,
\* initial-values, calculate-A or new client shares, reconstructs res = 1 iff the
\* first bid >= the second bid.
C15_RepeatableComparison ==
    RepeatReconstructed("res") =>
        (resp.code = 200 /\ int16(resp.body) = (IF SecretX >= SecretY THEN 1 ELSE 0))

\* In the second comparison calculate-a-comparison is rejected at every node.
RepeatCalculateARejected ==
    (/\ orch.prim = "repeat"
     /\ orch.pc > Len(<< <<"factory_reset">> >> \o main(orch.l, orch.k)) + 1
     /\ resp.op = "calculate_a_comparison") => resp.code = 400

\* the parameters of an initialised node: t >= 1, n = 2t+1, one party per node
ParametersOK(s) ==
    ~IsNone(s.n) =>
        /\ s.t[2] >= 1
        /\ s.n[2] = 2 * s.t[2] + 1
        /\ Len(s.parties[2]) = s.n[2]

\* the lengths 2t+1 of a peer list for some t >= 1
GoodLength(len) == \E t \in 1..len : len = 2 * t + 1

\* C17: an initialised node has t >= 1, n = 2t+1 and n parties; initial-values/set
\* under a peer list whose length is not 2t+1 for a t >= 1 is rejected and leaves the
\* state unchanged.
C17_ParameterInvariant ==
    [][/\ ParametersOK(st'[Me])
       /\ (resp'.op = "set_initial_values" /\ orch.prim = "deploy"
             /\ ~GoodLength(Len(orch.servers))) =>
              (resp'.code = 400 /\ st' = st)
    ]_vars

\* The same for every deployment but that of a single server.
ParametersUnlessOneServer ==
    [][(orch.prim = "deploy" /\ Len(orch.servers) # 1) =>
          /\ ParametersOK(st'[Me])
          /\ (resp'.op = "set_initial_values" /\ ~GoodLength(Len(orch.servers))) =>
                 (resp'.code = 400 /\ st' = st)
    ]_vars

\* the client ids of a client_shares list, in its order
ClientsOf(client_shares) == [k \in DOMAIN client_shares[2] |-> client_shares[2][k][2][2]]

\* no client id occurs twice in the list
OnePerClient(client_shares) ==
    \A a, b \in DOMAIN client_shares[2] :
        client_shares[2][a][2] = client_shares[2][b][2] => a = b

\* a put of (uid, share) on a list: appended at the end iff uid has no entry,
\* otherwise rejected with the state unchanged
PutAppendsIffNew(before, after) ==
    LET uid == resp'.args[1]
        entry == Pair(I(uid), I(int16(resp'.args[2])))
        present == IsList(before) /\ \E k \in DOMAIN before[2] : before[2][k][2] = I(uid)
    IN IF present
       THEN resp'.code = 400 /\ st' = st
       ELSE resp'.code = 201 /\ IsList(before) /\ after = L(Append(before[2], entry))

\* C19: client_shares never holds two entries of one client; a client-shares/put on
\* an initialised node appends (client_id, share) at the end iff the client has no
\* entry and is rejected with the list unchanged otherwise.
C19_OneSharePerClient ==
    [][\A i \in Procs :
          LET before == Get(st[i].shares, "client_shares")
              after == Get(st'[i].shares, "client_shares")
          IN /\ IsList(after) => OnePerClient(after)
             /\ (resp'.op = "set_client_shares" /\ resp'.proc = i /\ AnySet(st[i])) =>
                    PutAppendsIffNew(before, after)
    ]_vars

\* The same while the list exists: the puts that meet a client_shares list.
PutsOnAList ==
    [][\A i \in Procs :
          LET before == Get(st[i].shares, "client_shares")
              after == Get(st'[i].shares, "client_shares")
          IN /\ IsList(after) => OnePerClient(after)
             /\ (resp'.op = "set_client_shares" /\ resp'.proc = i /\ IsList(before)) =>
                    PutAppendsIffNew(before, after)
    ]_vars

\* C20: on an initialised node bidders answers the client ids of the entries that
\* client-shares/put accepted, each once and in insertion order, and leaves the
\* state unchanged.
C20_Bidders ==
    [][(resp'.op = "get_bidders" /\ ~IsNone(st[resp'.proc].n)) =>
          LET client_shares == Get(st[resp'.proc].shares, "client_shares")
          IN /\ st' = st
             /\ resp'.code = 200
             /\ resp'.body = L(IF IsList(client_shares)
                               THEN [k \in DOMAIN client_shares[2] |-> client_shares[2][k][2]]
                               ELSE <<>>)
    ]_vars

(***************************************************************************)
(* Properties of the values a node stores and of its peer interface.       *)
(***************************************************************************)
\* the buffers of a node, which are lists and not field elements themselves
Buffers == {"client_shares", "shared_q", "shared_r", "shared_u"}

\* the non-None entries of a list
Entries(lst) == IF IsList(lst) THEN {lst[2][k] : k \in DOMAIN lst[2]} \ {None} ELSE {}

\* the field elements a node holds: the shares of the clients, the named shares,
\* the received slots, the three registers, the random bit shares and the share
\* of the random number
FieldElements(s) ==
    LET client_shares == Get(s.shares, "client_shares")
    IN UNION {
         IF IsList(client_shares)
         THEN {client_shares[2][k][3] : k \in DOMAIN client_shares[2]} ELSE {},
         {s.shares[name] : name \in DOMAIN s.shares \ Buffers} \ {None},
         UNION {Entries(Get(s.shares, key)) : key \in {"shared_q", "shared_r", "shared_u"}},
         {s.additive_share, s.multiplicative_share, s.xor_share, s.random_number_share}
             \ {None},
         Entries(s.random_number_bit_shares) }

\* C21: every field element that an initialised node holds is an integer in [0, p).
C21_RangeInvariant ==
    \A i \in Procs :
        IsInt(st[i].p) =>
            \A v \in FieldElements(st[i]) : IsInt(v) /\ 0 <= v[2] /\ v[2] < st[i].p[2]

\* C21 without the random bit shares and their copy r_l: in the runs of SpecCmp
\* every other value that a node holds is in [0, p).
ReducedButBits ==
    \A i \in Procs :
        IsInt(st[i].p) =>
            \A v \in FieldElements([st[i] EXCEPT
                                      !.random_number_bit_shares = L(<<>>),
                                      !.shares = [name \in DOMAIN @ \ {"r_l"} |-> @[name]]]) :
                IsInt(v) /\ 0 <= v[2] /\ v[2] < st[i].p[2]

\* the operations of the peer interface
PeerOps == {"set_received_q", "set_received_r", "receive_u_from_parties",
            "get_share_to_reconstruct"}

\* the transport reports a trusted caller: the address it reports, which is that of
\* X-Forwarded-For when the header is set and the host of the connection
\* otherwise, is on the configured list
ReportedTrusted(o) ==
    /\ IsList(o.trusted_ips)
    /\ \E k \in DOMAIN o.trusted_ips[2] :
           o.trusted_ips[2][k] = (IF o.X_Forwarded_For # ""
                                  THEN split_colon_first(o.X_Forwarded_For) ELSE o.host)

\* C22: a receive-q, receive-r, receive-u or return-share-to-reconstruct of a
\* caller that the transport reports as not trusted is rejected, writes no slot
\* and returns no share value.
C22_TrustGate ==
    [][(orch'.prim = "gate" /\ resp'.op \in PeerOps /\ ~ReportedTrusted(orch')) =>
          /\ resp'.code \notin {200, 201}
          /\ st' = st
          /\ resp'.body = None
    ]_vars

\* C22 witness: a stranger's receive-q for a free slot of the initialised node has
\* been answered 403.
C22_Witness ==
    /\ orch.prim = "gate"
    /\ resp.op = "set_received_q"
    /\ resp.code = 403
    /\ ~ReportedTrusted(orch)
    /\ IsList(orch.trusted_ips)
    /\ IsList(Get(st[Me].shares, "shared_q"))
    /\ IsNone(st[Me].shares["shared_q"][2][resp.args[2]])

\* A trusted peer's return-share-to-reconstruct is never served either.
NoShareReturned ==
    (orch.prim = "gate" /\ resp.op = "get_share_to_reconstruct") => resp.code # 200

\* a name that, up to letter case and surrounding blanks, is that of a buffer
NamesABuffer(name) == strip_lower(name) \in Buffers

\* C23: in every state, whatever named shares the orchestrator has created, a
\* return-share-to-reconstruct that passes the trust gate is refused when its name
\* is that of client_shares, shared_q, shared_r or shared_u in any letter case or
\* with surrounding blanks, and a share that it returns is never stored under the
\* name of a buffer.
C23_SafeShareNames ==
    \A name \in RequestedNames :
        LET answer == get_share_to_reconstruct(st[Me], TRUE, name)
        IN /\ NamesABuffer(name) => answer[1] # 200
           /\ answer[1] = 200 => (name \in DOMAIN st[Me].shares /\ lower(name) \notin Buffers)

\* C23 witness: a request for " Shared_U " has been refused with 403 by a node
\* whose shared_u holds a received share and on which the orchestrator has created
\* shares named Shared_Q and shared_q.
C23_Witness ==
    /\ resp.op = "get_share_to_reconstruct"
    /\ resp.args = <<TRUE, " Shared_U ">>
    /\ resp.code = 403
    /\ {"Shared_Q", "shared_q"} \subseteq DOMAIN st[Me].shares
    /\ IsList(Get(st[Me].shares, "shared_u"))
    /\ Entries(st[Me].shares["shared_u"]) # {}

\* C24: for a prime p, t >= 1 with n = 2t+1 < p and a secret k0 in [0, p),
\* reconstructing from the points of Shamir(t, n, k0, p) with their Lagrange
\* coefficients returns k0, whatever the random coefficients were.
C24_LagrangeRoundTrip ==
    (orch.prim = "shamir" /\ orch.pc = 3) => orch.secret = orch.k0

\* C24 for every run but the sharing of the secret 0 with t = 1.
RoundTripUnlessZeroConstant ==
    (orch.prim = "shamir" /\ orch.pc = 3 /\ ~(orch.t = 1 /\ orch.k0 = 0)) =>
        orch.secret = orch.k0

\* every node of the chosen deployment has its parameters and holds under "res"
\* its point of the chosen polynomial
AllHoldThePolynomial ==
    /\ orch.prim = "rec"
    /\ \A i \in DOMAIN orch.servers :
         /\ st[i].id = I(i)
         /\ st[i].p = I(orch.p)
         /\ st[i].t = I(Len(orch.coefficients))
         /\ "res" \in DOMAIN st[i].shares
         /\ st[i].shares["res"] =
                I(f(i, orch.coefficients, orch.p, Len(orch.coefficients)))

\* C25: when all n nodes hold under a name the points of one polynomial of
\* degree < t, return_secret of that name answers the polynomial's value at 0
\* mod p, whichever node runs it and whichever t - 1 peers it samples.
C25_ReconstructionIndependentOfPeers ==
    (AllHoldThePolynomial /\ resp.op = "return_secret")
        => /\ resp.code = 200
           /\ resp.body = hex(orch.coefficients[1] % orch.p)

\* with three nodes (t = 1) no peer is sampled and the answer is the node's own
\* share, the constant polynomial's value
ReconstructionWithoutPeers ==
    (AllHoldThePolynomial /\ resp.op = "return_secret" /\ Len(orch.servers) = 3)
        => /\ resp.code = 200
           /\ resp.body = hex(orch.coefficients[1] % orch.p)

\* with five nodes (t = 2) the sampled peer never serves its share and the
\* reconstruction is answered 400
ReconstructionWithPeersFails ==
    (AllHoldThePolynomial /\ resp.op = "return_secret" /\ Len(orch.servers) = 5)
        => resp.code = 400

\* the peers a node can sample
OtherParties(s) == {s.parties[2][k] : k \in {k \in DOMAIN s.parties[2] : k # s.id[2]}}

\* peer j answers node i's return-share-to-reconstruct request with (id, value)
PeerServes(i, j, share_to_reconstruct) ==
    served_share_to_reconstruct(st[j], orch.trusted_ips, Address(i), share_to_reconstruct)[1] = 200

\* C30: return_secret changes no field of any node's state, and it answers a
\* secret only when every peer of some sample of t - 1 peers returned its
\* (id, value); a peer that does not makes the reconstruction fail.
C30_ReconstructionFailureAndFrame ==
    [][(resp' # resp /\ resp'.op = "return_secret")
         => /\ st' = st
            /\ resp'.code = 200
                 => \E selected_parties \in sample(OtherParties(st[resp'.proc]),
                                                    st[resp'.proc].t[2] - 1) :
                      \A k \in DOMAIN selected_parties :
                          PeerServes(resp'.proc, selected_parties[k], "res")]_vars

C30_Witness ==
    /\ AllHoldThePolynomial
    /\ Len(orch.servers) = 5
    /\ resp.op = "return_secret"
    /\ resp.code = 400
    /\ \A j \in OtherParties(st[resp.proc]) : ~PeerServes(resp.proc, j, "res")

\* the polynomial of the run has degree < t
DegreeBelowT == \A k \in DOMAIN orch.coefficients : k > orch.t => orch.coefficients[k] = 0

\* C26: combining the values of the nodes through A = B^-1 * P * B maps the
\* evaluations at 1..n of a polynomial of degree < t to themselves and those of
\* a polynomial of degree <= 2t to the evaluations of its terms of degree < t.
C26_MatrixIdentity ==
    (orch.prim = "matrix" /\ orch.pc = 4)
        => /\ DegreeBelowT => orch.combined = orch.values
           /\ orch.combined = [k \in 1..orch.n |-> f(k, orch.coefficients, orch.p, orch.t)]

C26_Witness ==
    /\ orch.prim = "matrix"
    /\ orch.pc = 4
    /\ orch.n = 5
    /\ orch.coefficients[orch.t + 1] # 0
    /\ orch.coefficients[orch.n] # 0
    /\ orch.combined # orch.values

\* the matrix of calculate_A exists for every prime p > n
MatrixExists == (orch.prim = "matrix" /\ orch.pc >= 2) => IsList(orch.A)

\* the determinant of B, the Vandermonde matrix of the points 1..n: the product
\* of the differences j - i over i < j
RECURSIVE Factorial(_)
Factorial(k) == IF k <= 1 THEN 1 ELSE k * Factorial(k - 1)

RECURSIVE VandermondeDeterminant(_)
VandermondeDeterminant(n) ==
    IF n <= 1 THEN 1 ELSE VandermondeDeterminant(n - 1) * Factorial(n - 1)

\* B of a node with parameters n and p is singular mod p
SingularB(s) == VandermondeDeterminant(s.n[2]) % s.p[2] = 0

\* C27: compute-A is accepted only when t, n and p are set and A is None, and
\* then stores a matrix; a call made when A is set is rejected and leaves A
\* unchanged; a call made when B is singular mod p fails and A remains None.
C27_ComputeA ==
    [][(resp' # resp /\ resp'.op = "calculate_A")
         => LET s == st[Me]
                set == ~IsNone(s.t) /\ ~IsNone(s.n) /\ ~IsNone(s.p)
            IN /\ resp'.code = 201
                    => set /\ IsNone(s.A) /\ ~SingularB(s) /\ IsList(st'[Me].A)
               /\ ~IsNone(s.A) => resp'.code = 400 /\ st' = st
               /\ (set /\ IsNone(s.A) /\ SingularB(s))
                    => resp'.code = 400 /\ st' = st /\ IsNone(st'[Me].A)]_vars

C27_Witness ==
    /\ resp.op = "calculate_A"
    /\ resp.code = 400
    /\ ~IsNone(st[Me].p)
    /\ IsNone(st[Me].A)
    /\ SingularB(st[Me])
    /\ st[Me].n = I(5)

\* a second compute-A is answered 400 and the matrix stays
SecondComputeARejected ==
    (resp.op = "calculate_A" /\ resp.rep) => resp.code = 400

\* the operations that reset a node
Resets == {"reset_calculation", "reset_comparison", "factory_reset"}

\* slot k of shared_u holds a value
UFilled(s, k) ==
    /\ IsList(s.shares["shared_u"])
    /\ k \in DOMAIN s.shares["shared_u"][2]
    /\ ~IsNone(s.shares["shared_u"][2][k])

\* C28: between two resets a slot of shared_u changes only from None to one
\* value: a receive-u for a slot that is filled is rejected and the stored
\* value stays.
C28_SharedUWriteOnce ==
    [][\A k \in PartyIds :
          (UFilled(st[Me], k) /\ resp' # resp /\ resp'.op \notin Resets)
              => /\ st'[Me].shares["shared_u"] = st[Me].shares["shared_u"]
                 /\ (resp'.op = "receive_u_from_parties" /\ resp'.args[2] = k)
                        => resp'.code \notin {200, 201}]_vars

\* a filled slot of shared_u is changed by nothing but a receive-u for that slot
\* and the resets
UChangedByReceiveUOnly ==
    [][\A k \in PartyIds :
          (UFilled(st[Me], k) /\ resp' # resp /\ resp'.op \notin Resets
             /\ ~(resp'.op = "receive_u_from_parties" /\ resp'.args[2] = k /\ resp'.code = 201))
              => /\ UFilled(st'[Me], k)
                 /\ st'[Me].shares["shared_u"][2][k] = st[Me].shares["shared_u"][2][k]]_vars

\* C29: between two consecutive reset_calculation operations a node sends each
\* other peer at most one q-share message and at most one r-share message,
\* whatever the order of the orchestrator's requests.
C29_OneMessagePerPeerPerRound ==
    orch.prim = "send"
        => \A k \in Peers : orch.sent["q"][k] <= 1 /\ orch.sent["r"][k] <= 1

\* one redistribute-q or redistribute-r sends every other peer exactly one message
OneMessagePerRequest ==
    (resp.op \in {"redistribute_q", "redistribute_r"} /\ resp.code = 201)
        => \A k \in Peers : Cardinality({m \in out : m.to = k}) = 1

(***************************************************************************)
(* Properties of the comparison tables and of the random bit.              *)
(***************************************************************************)
\* bit j (from 0) of the number a
BitOf(a, j) == (a \div Pow(2, j)) % 2

\* the tables of node Me after prepare_z_tables(opened_a, l, k), but for the
\* length of comparison_a_bits
TablesOf(opened_a, l) ==
    LET s == st[Me]
        bits == s.comparison_a_bits[2]
    IN /\ \A j \in DOMAIN bits : bits[j] = I(BitOf(int16(opened_a), j - 1))
       /\ Len(s.z_table[2]) = l
       /\ Len(s.Z_table[2]) = l
       /\ \A j \in 1..l : s.z_table[2][j] = bits[j] /\ s.Z_table[2][j] = bits[j]

\* C31: prepare_z_tables(opened_a, l, k) sets comparison_a_bits to the
\* little-endian bits of opened_a zero-padded to a length of at least l + k + 2,
\* so that comparison_a_bits[l] is defined, and sets z_table and Z_table to
\* length l with z_table[i] = Z_table[i] = comparison_a_bits[i].
C31_PrepareZTables ==
    (resp.op = "prepare_z_tables" /\ resp.code = 201)
        => /\ Len(st[Me].comparison_a_bits[2]) >= resp.args[2] + resp.args[3] + 2
           /\ TablesOf(resp.args[1], resp.args[2])

\* the tables are as stated when the padding is to l + k, the length the code
\* pads to
PrepareZTablesPaddedToLK ==
    (resp.op = "prepare_z_tables" /\ resp.code = 201)
        => /\ Len(st[Me].comparison_a_bits[2]) >= resp.args[2] + resp.args[3]
           /\ TablesOf(resp.args[1], resp.args[2])

\* comparison_a_bits[l] is defined when k >= 1
BitLDefinedForPositiveK ==
    (resp.op = "prepare_z_tables" /\ resp.code = 201 /\ resp.args[3] >= 1)
        => Len(st[Me].comparison_a_bits[2]) >= resp.args[2] + 1

\* the random bit shares of node Me up to the position after the last bit of a
\* have been stored through random-bit/set-temporary
RandomBitsStored ==
    LET s == st[Me]
    IN /\ Len(s.comparison_a_bits[2]) >= 1
       /\ Len(s.random_number_bit_shares[2]) >= Len(s.comparison_a_bits[2]) + 1
       /\ \A j \in DOMAIN s.random_number_bit_shares[2] :
              IsPair(s.random_number_bit_shares[2][j])

\* this node's share value of random bit index, as set-temporary stored it
RandomBitShare(s, index) == s.random_number_bit_shares[2][index + 1][3][2]

\* C32: after prepare_z_tables and after the random bit shares have been stored
\* through random-bit/set-temporary, calc-add-of-z-table/{i} succeeds for every
\* i < l and sets additive_share = (comparison_a_bits[i] + the share of random
\* bit i) mod p, and calc-r-of-z-table/{i} sends the round-R shares of the
\* product of the same two values.
C32_ZTableArguments ==
    LET s == st[Me]
        index == resp.args[1]
    IN /\ (/\ resp.op = "calculate_additive_share_of_z_table_arguments"
           /\ RandomBitsStored
           /\ IsInt(s.p)
           /\ index < Len(s.z_table[2]))
          => /\ resp.code = 201
             /\ s.additive_share =
                  I((s.comparison_a_bits[2][index + 1][2] + RandomBitShare(s, index)) % s.p[2])
       /\ (/\ resp.op = "calculate_r_of_z_table"
           /\ RandomBitsStored
           /\ IsInt(s.p)
           /\ IsList(s.A)
           /\ validate_initialized_shares_array(s, {"shared_q"})
           /\ index < Len(s.z_table[2]))
          => /\ resp.code = 201
             /\ out = PeerMessages(s, "r", RShares(s, s.comparison_a_bits[2][index + 1][2],
                                                   RandomBitShare(s, index)))

\* what the two handlers answer instead: the stored random bit share is the pair
\* (id, share) and the sum or product with it raises TypeError
ZTableArgumentsRaise ==
    (/\ resp.op \in {"calculate_additive_share_of_z_table_arguments", "calculate_r_of_z_table"}
     /\ RandomBitsStored
     /\ IsInt(st[Me].p)
     /\ (resp.op = "calculate_r_of_z_table"
            => IsList(st[Me].A) /\ validate_initialized_shares_array(st[Me], {"shared_q"}))
     /\ resp.args[1] < Len(st[Me].z_table[2]))
        => resp.code = 500

\* both requests are made in such a state
ZTableArgumentsAsked ==
    /\ resp.op = "calculate_r_of_z_table"
    /\ RandomBitsStored
    /\ IsList(st[Me].A)
    /\ validate_initialized_shares_array(st[Me], {"shared_q"})
    /\ resp.args[1] < Len(st[Me].z_table[2])

\* the sweep of the run is over
RombDone == orch.prim = "romb" /\ orch.pc = 2 /\ orch.index < 0

\* the positions (from 1) at which the bits of a and r differ
Differing == {j \in 1..orch.l : orch.a[j] # orch.r[j]}

\* the positions (from 1) at which the bits of a and r agree
Agreeing == {j \in 1..orch.l : orch.a[j] = orch.r[j]}

\* the number whose little-endian bits are the sequence bits
LowBits(bits) == SumSeq([j \in DOMAIN bits |-> bits[j] * Pow(2, j - 1)])

\* the greatest element of a non-empty set of numbers
Greatest(S) == CHOOSE j \in S : \A j2 \in S : j2 <= j

\* C33: with z_table[i] = a_i XOR r_i and Z_table[i] = a_i, the sweep from
\* (z_table[l-1], Z_table[l-1]) down to i = 0 ends with Z equal to a_i at the
\* most significant position i < l at which a_i and r_i differ.
C33_RombClosedForm ==
    (RombDone /\ Differing # {}) => orch.shares["Z"] = orch.a[Greatest(Differing)]

\* C33, as the sweep computes it: the sweep ends with Z equal to a_i at the most
\* significant position i < l at which a_i and r_i agree, and with 0 when they
\* agree nowhere; this is the carry of a + r into position l.
C33_RombEndsAtAgreeingBit ==
    RombDone => /\ orch.shares["Z"] = IF Agreeing = {} THEN 0 ELSE orch.a[Greatest(Agreeing)]
                /\ orch.shares["Z"] = (LowBits(orch.a) + LowBits(orch.r)) \div Pow(2, orch.l)

C33_Witness ==
    /\ RombDone
    /\ orch.l = 3
    /\ Differing # {}
    /\ Agreeing # {}
    /\ Greatest(Differing) > Greatest(Agreeing)
    /\ orch.a[Greatest(Differing)] # orch.a[Greatest(Agreeing)]
    /\ orch.shares["Z"] = orch.a[Greatest(Agreeing)]

\* the bits stored so far are bits
StoredBitsAreBits ==
    orch.prim = "bit" => \A j \in DOMAIN orch.bits : orch.bits[j] \in {0, 1}

\* the bit is computed from a u of [1, p-1] only, and it says whether u is the
\* smallest square root of its square
BitTellsTheRoot ==
    (orch.prim = "bit" /\ orch.pc = 4) =>
        /\ orch.u \in 1..(orch.p - 1)
        /\ orch.opened_v = (orch.u * orch.u) % orch.p
        /\ LET w == smallest_square_root_modulo(orch.opened_v, orch.p)
           IN /\ w \in 1..(orch.p - 1)
              /\ (modular_multiplicative_inverse(w, orch.p) * orch.u) % orch.p \in {1, orch.p - 1}

\* an opened v of 0 sends the generation back to the sampling of u, and nothing
\* is stored
RestartOnZero ==
    (orch.prim = "bit" /\ orch.pc = 3 /\ orch.v = 0) =>
        (orch'.pc = 1 /\ orch'.bits = orch.bits /\ orch'.bit = orch.bit)

\* C34: for every prime p > 2 of the runs and every u of [1, p-1] the value
\* (w^-1 * u + 1) * 2^-1 mod p, with w the smallest square root of u^2 mod p, is
\* 0 or 1; every bit the generation stores is 0 or 1; and an opened v of 0
\* restarts the generation from the sampling of u without storing a bit.
C34_RandomBitIsABit ==
    /\ [](\A p \in BitPrimes : \A u \in 1..(p - 1) :
            LET w == smallest_square_root_modulo((u * u) % p, p)
                inverse_w_times_u == (modular_multiplicative_inverse(w, p) * u) % p
                inverse_w_times_u_plus_one == (inverse_w_times_u + 1) % p
            IN (inverse_w_times_u_plus_one * modular_multiplicative_inverse(2, p)) % p
                   \in {0, 1})
    /\ [](StoredBitsAreBits /\ BitTellsTheRoot)
    /\ [][RestartOnZero]_vars

\* both bit values have been stored, after a restart on an opened v of 0
C34_Witness ==
    /\ orch.prim = "bit"
    /\ orch.restarted
    /\ orch.bits = <<0, 1>>

\* the node has shared a u of its own
USecretShared == orch.prim = "uround" /\ orch.round > 0

\* C35: the secret a node shares in redistribute-u is never congruent to 0
\* modulo p.
C35_USecretNeverZero ==
    USecretShared => orch.secret % st[Me].p[2] # 0

\* the secret is drawn from [1, p], p included
USecretUpToP ==
    USecretShared => orch.secret \in 1..st[Me].p[2]

\* C38: whenever calculate-shared-u succeeds, the slots it sums were all written
\* in the round under way.
C38_NoMixingOfURounds ==
    (orch.prim = "uround" /\ resp.op = "calculate_u" /\ resp.code = 201) =>
        \A k \in Procs : orch.summed[k] = orch.round

\* a sum is accepted only with every slot written at some time
USumNeedsEverySlotOnce ==
    (orch.prim = "uround" /\ resp.op = "calculate_u" /\ resp.code = 201) =>
        \A k \in Procs : orch.summed[k] > 0

\* a sum was accepted in the second round
USecondRoundSummed ==
    /\ orch.prim = "uround"
    /\ resp.op = "calculate_u"
    /\ resp.code = 201
    /\ orch.round = 2

\* the polynomials of degree at most d with constant term k0, as coefficient
\* lists, that pass through the points
PolynomialsThrough(shares, d, k0, p) ==
    {c \in {<<k0>> \o rest : rest \in [1..d -> 0..(p - 1)]} :
        \A i \in DOMAIN shares : shares[i] = <<i, f(i, c, p, d + 1)>>}

DegreeShared == orch.prim = "degree" /\ orch.pc = 2

\* C36: Shamir(t, n, k0, p) returns the n points (i, f(i) mod p) of a polynomial
\* with constant term k0 and degree exactly t, and the q-shares are n points of a
\* polynomial of degree exactly 2t with free term 0 (orch.degree is t or 2t).
C36_ShamirDegreeExactlyT ==
    DegreeShared =>
        \E c \in PolynomialsThrough(orch.shares, orch.degree, orch.k0, orch.p) :
            c[orch.degree + 1] # 0

\* the points are those of a polynomial of degree at most one less than asked,
\* whose constant term is k0 unless the polynomial is a constant and k0 = 0
ShamirOneDegreeLess ==
    DegreeShared =>
        IF orch.degree = 1
        THEN \E k \in 0..(orch.p - 1) :
               /\ orch.k0 # 0 => k = orch.k0
               /\ orch.k0 = 0 => k # 0
               /\ \A i \in DOMAIN orch.shares : orch.shares[i] = <<i, k>>
        ELSE \E c \in PolynomialsThrough(orch.shares, orch.degree - 1, orch.k0, orch.p) :
               c[orch.degree] # 0

\* q-shares have been drawn for t = 2
QSharesDrawn == DegreeShared /\ orch.degree = 4

\* the requests that write a share under a supplied name
NamedWrites ==
    {"set_shares", "set_share_from_additive_share",
     "set_share_from_multiplicative_share", "set_share_from_xor_share"}

\* the step is a named write
NamedWrite == resp'.op \in NamedWrites /\ resp'.proc = Me

\* the reserved slots are what they were
ReservedUnchanged ==
    \A key \in ReservedSlots : st'[Me].shares[key] = st[Me].shares[key]

\* each buffer is a list of n slots and client_shares is a list of pairs
ReservedShapes ==
    ~IsNone(st[Me].n) =>
        /\ \A key \in {"shared_q", "shared_r", "shared_u"} :
             /\ IsList(st[Me].shares[key])
             /\ Len(st[Me].shares[key][2]) = st[Me].n[2]
        /\ IsList(st[Me].shares["client_shares"])
        /\ \A k \in DOMAIN st[Me].shares["client_shares"][2] :
             st[Me].shares["client_shares"][2][k][1] = "P"

\* C37: no share/set, additive/commit, multiplicative/commit or xor/commit,
\* whatever share name is supplied, changes client_shares, shared_q, shared_r or
\* shared_u, and in every initialised state the three buffers are lists of n slots
\* and client_shares is a list of (client_id, share) pairs.
C37_ReservedSlotsNeverClobbered ==
    /\ [][NamedWrite => ReservedUnchanged]_vars
    /\ []ReservedShapes

\* a named write under a name that is no reserved slot leaves the reserved slots
ReservedKeptUnderOtherNames ==
    [][(NamedWrite /\ resp'.args[1] \notin ReservedSlots) => ReservedUnchanged]_vars

\* every commit has been accepted under the name of a reserved slot
ReservedNameAccepted ==
    /\ resp.op = "set_share_from_xor_share"
    /\ resp.code = 201
    /\ resp.args[1] \in ReservedSlots
    /\ IsInt(st[Me].shares["shared_q"])

\* the phases of the round
RoundPhases ==
    {"reset_calculation", "redistribute_q", "redistribute_r", "calculate_multiplicative_share"}

\* every slot of the buffer of node i is filled
Filled(i, key) ==
    /\ IsList(st[i].shares[key])
    /\ \A k \in DOMAIN st[i].shares[key][2] : ~IsNone(st[i].shares[key][2][k])

\* the round is complete: every node holds n q-shares and n r-shares and its
\* multiplicative share, the product of the two secrets when opened
RoundComplete ==
    /\ orch.prim = "round"
    /\ \A i \in Procs :
         /\ Filled(i, "shared_q")
         /\ Filled(i, "shared_r")
         /\ Len(st[i].shares["shared_q"][2]) = Len(SERVERS)
         /\ Len(st[i].shares["shared_r"][2]) = Len(SERVERS)
         /\ IsInt(st[i].multiplicative_share)
    /\ LET p == int16(orch.p)
           shares == [i \in Procs |-> <<i, st[i].multiplicative_share[2]>>]
       IN reconstruct_secret(shares, computate_coefficients(shares, p), p)
              = (orch.x[1] * orch.y[1]) % p

\* no request of the round and no peer message is refused
RoundNeverRefused ==
    (orch.prim = "round" /\ orch.pc > Len(Setup)
        /\ resp.op \in RoundPhases \cup {"set_received_q", "set_received_r"})
    => resp.code = 201

AllR(s) == IsList(s.shared_r) /\ \A k \in DOMAIN s.shared_r[2] : ~IsNone(s.shared_r[2][k])

Label == leg.s.status

\* the last request, answered with 201
Answer201(op) == resp.op = op /\ resp.code = 201

\* the labels of C9 other than the one after the finalize
LabelsButFinalize ==
    /\ resp.op = "boot" => Label = "NOT_INITIALIZED"
    /\ (\A key \in {"t", "n", "id", "p", "parties"} : IsNone(leg.s[key])) => Label = "NOT_INITIALIZED"
    /\ (resp.op = "set_initial_values" /\ resp.code = 200) => Label = "INITIALIZED"
    /\ Answer201("redistribute_q") => Label = "Q_CALC_SHARED"
    /\ Answer201("redistribute_r") => Label = "R_CALC_SHARED"
    /\ Answer201("reset_calculation") => Label = "INITIALIZED"
    /\ Answer201("factory_reset") => Label = "NOT_INITIALIZED"

\* C9: the label is NOT_INITIALIZED until the initial values are set, INITIALIZED
\* after they are, Q_CALC_SHARED after a successful redistribute-q, R_CALC_SHARED
\* after a successful redistribute-r, SHARE_CALCULATED after a successful finalize,
\* INITIALIZED after reset_calculation and NOT_INITIALIZED after factory_reset.
C9_Labels ==
    /\ LabelsButFinalize
    /\ Answer201("calculate_multiplicative_share") => Label = "SHARE_CALCULATED"

====
